---------------------------- MODULE Spec2Model ----------------------------
(***************************************************************************)
(* VentSim: the class-based simulation engine (VentilatorModel,            *)
(* BasicPatientModel, AdvancedPatientModel, VentilatorSimulation) and the  *)
(* legacy global-state core (simulation-core.js).                          *)
(*                                                                         *)
(* Numbers.  JavaScript numbers are IEEE doubles.  They are modelled as    *)
(* extended rationals: a record [k, n, d] with k = "fin" (the rational     *)
(* n/d in lowest terms, d > 0), "inf", "ninf" or "nan".  Timing and        *)
(* pressure arithmetic is exact.  Volumes and flows are rounded down to    *)
(* a fixed grid (1/VolScale) after every assignment, and e^(-x) is the     *)
(* rational approximant 1/(1 + x + x^2/2) rounded to 1/ExpScale, which     *)
(* keeps e^0 = 1, 0 < e^(-x) < 1 for x > 0, e^(-x) > 1 for x < 0 and       *)
(* monotonicity.  Signed zeros are not modelled.                           *)
(***************************************************************************)
EXTENDS Integers, Sequences, FiniteSets, TLC

VARIABLES
  variant,          \* which script the page loads: "class" or "legacy"
  ventilator,       \* VentilatorSimulation.ventilator (a VentilatorModel)
  patient,          \* VentilatorSimulation.patient (a BasicPatientModel)
  advancedPatient,  \* VentilatorSimulation.advancedPatient
  useAdvancedModel, \* VentilatorSimulation.useAdvancedModel
  currentTime,      \* VentilatorSimulation.currentTime
  simulationData,   \* VentilatorSimulation.simulationData (the history)
  isRunning,        \* VentilatorSimulation.isRunning
  simulationInterval, \* VentilatorSimulation.simulationInterval (0 = null)
  timers,           \* interval timers the runtime has scheduled and not cleared
  nextTimerId,      \* the id the next setInterval returns
  legacy,           \* the module-level state of simulation-core.js
  lastOp,           \* the operation performed by the last step, with its input
  breath,           \* observer: I->E changes seen in the current breath cycle
  nOps,             \* number of configuration calls made so far
  reader            \* a caller of getData() and the array it was handed

vars == <<variant, ventilator, patient, advancedPatient, useAdvancedModel,
          currentTime, simulationData, isRunning, simulationInterval, timers,
          nextTimerId, legacy, lastOp, breath, nOps, reader>>

classVars == <<ventilator, patient, advancedPatient, useAdvancedModel,
               currentTime, simulationData, isRunning, simulationInterval,
               timers, nextTimerId, breath, reader>>

---------------------------------------------------------------------------
(* Bounds of the model *)

\* Spec: ticks per run, configuration calls per run, interval timers ever created
MaxTicks == 1
MaxOps == 2
MaxTimers == 2
\* SpecRun: configuration calls before the first tick, ticks of the engine, steps
\* of the legacy core
RunOps == 3
RunTicks == 12
LegacyRunTicks == 6
\* SpecLong: ticks of the engine; a steady state is looked at after SteadyTicks
LongTicks == 1002
SteadyTicks == 500
Burst == 50

---------------------------------------------------------------------------
(* Extended rational arithmetic (JavaScript number semantics) *)

VolScale == 100
ExpScale == 1000

Abs(i) == IF i < 0 THEN -i ELSE i

RECURSIVE GCD(_, _)
GCD(a, b) == IF b = 0 THEN a ELSE GCD(b, a % b)

\* n/d with the common divisor g taken out and the sign carried by n
Reduce(n, d, g) ==
  [k |-> "fin", n |-> (IF d < 0 THEN -n ELSE n) \div g, d |-> Abs(d) \div g]

Q(n, d) == Reduce(n, d, GCD(Abs(n), Abs(d)))

I(n) == [k |-> "fin", n |-> n, d |-> 1]
Inf == [k |-> "inf", n |-> 0, d |-> 1]
NInf == [k |-> "ninf", n |-> 0, d |-> 1]
NaN == [k |-> "nan", n |-> 0, d |-> 1]

IsFin(x) == x.k = "fin"
IsNaN(x) == x.k = "nan"
Sign(x) ==
  CASE x.k = "inf" -> 1
    [] x.k = "ninf" -> -1
    [] x.k = "nan" -> 0
    [] OTHER -> IF x.n > 0 THEN 1 ELSE IF x.n < 0 THEN -1 ELSE 0

Neg(x) ==
  CASE x.k = "fin" -> [x EXCEPT !.n = -x.n]
    [] x.k = "inf" -> NInf
    [] x.k = "ninf" -> Inf
    [] OTHER -> NaN

\* x + y of finite x, y over the least common denominator, g = gcd(x.d, y.d)
AddFin(x, y, g) ==
  Q(x.n * (y.d \div g) + y.n * (x.d \div g), x.d * (y.d \div g))

Add(x, y) ==
  CASE IsNaN(x) \/ IsNaN(y) -> NaN
    [] IsFin(x) /\ IsFin(y) -> AddFin(x, y, GCD(x.d, y.d))
    [] IsFin(x) -> y
    [] IsFin(y) -> x
    [] OTHER -> IF x.k = y.k THEN x ELSE NaN

Sub(x, y) == Add(x, Neg(y))

\* x * y of finite x, y, cancelled crosswise: g = gcd(x.n, y.d), h = gcd(y.n, x.d)
MulFin(x, y, g, h) ==
  Q((x.n \div g) * (y.n \div h), (x.d \div h) * (y.d \div g))

\* The infinity or NaN of sign s
Signed(s) == IF s = 0 THEN NaN ELSE IF s > 0 THEN Inf ELSE NInf

Mul(x, y) ==
  CASE IsNaN(x) \/ IsNaN(y) -> NaN
    [] IsFin(x) /\ IsFin(y) -> MulFin(x, y, GCD(Abs(x.n), y.d), GCD(Abs(y.n), x.d))
    [] OTHER -> Signed(Sign(x) * Sign(y))

Div(x, y) ==
  CASE IsNaN(x) \/ IsNaN(y) -> NaN
    [] IsFin(x) /\ IsFin(y) ->
         IF y.n # 0 THEN Q(x.n * y.d, x.d * y.n)
         ELSE IF x.n = 0 THEN NaN ELSE IF x.n > 0 THEN Inf ELSE NInf
    [] IsFin(x) -> I(0)
    [] IsFin(y) -> IF Sign(x) * (IF y.n < 0 THEN -1 ELSE 1) > 0 THEN Inf ELSE NInf
    [] OTHER -> NaN

\* x < y, x <= y, x = y as JavaScript compares numbers: false when either is NaN
Lt(x, y) ==
  CASE IsNaN(x) \/ IsNaN(y) -> FALSE
    [] IsFin(x) /\ IsFin(y) -> x.n * y.d < y.n * x.d
    [] x.k = "ninf" -> y.k # "ninf"
    [] y.k = "inf" -> x.k # "inf"
    [] OTHER -> FALSE

NumEq(x, y) == ~IsNaN(x) /\ ~IsNaN(y) /\ x = y
Le(x, y) == Lt(x, y) \/ NumEq(x, y)
Gt(x, y) == Lt(y, x)
Ge(x, y) == Le(y, x)

\* Math.min, Math.max
MathMin(x, y) == IF IsNaN(x) \/ IsNaN(y) THEN NaN ELSE IF Lt(y, x) THEN y ELSE x
MathMax(x, y) == IF IsNaN(x) \/ IsNaN(y) THEN NaN ELSE IF Lt(x, y) THEN y ELSE x

\* Integer part toward zero of a finite x
Trunc(x) == IF x.n >= 0 THEN x.n \div x.d ELSE -((-x.n) \div x.d)
\* Largest integer <= a finite x
Floor(x) == x.n \div x.d

\* The % operator: the remainder has the sign of the dividend
JsMod(x, y) ==
  CASE IsNaN(x) \/ IsNaN(y) \/ ~IsFin(x) -> NaN
    [] ~IsFin(y) -> x
    [] y.n = 0 -> NaN
    [] OTHER -> Sub(x, Mul(y, I(Trunc(Div(x, y)))))

\* A value rounded down to the grid 1/s: the finite precision of a stored double
\* (a remainder over a denominator beyond 10^6 is first cut to six digits)
RoundCut(x, s, f) ==
  Q((x.n \div x.d) * s + (((x.n % x.d) \div f) * s) \div (x.d \div f), s)

RoundTo(x, s) == IF IsFin(x) THEN RoundCut(x, s, x.d \div 1000000 + 1) ELSE x
Vol(x) == RoundTo(x, VolScale)

\* Math.exp(-x): x and 1 + |x| + x^2/2 are taken on the grid 1/ExpScale, and
\* e^(-x) for x >= ExpCutoff is below the grid
ExpCutoff == 20
ExpPoly(a) == RoundTo(Add(I(1), Add(a, Div(Mul(a, a), I(2)))), ExpScale)
ExpOf(x, p) == IF x.n < 0 THEN p ELSE RoundTo(Div(I(1), p), ExpScale)
ExpNeg(x) ==
  CASE IsNaN(x) -> NaN
    [] x.k = "inf" -> I(0)
    [] x.k = "ninf" -> Inf
    [] Ge(x, I(ExpCutoff)) -> I(0)
    [] OTHER -> ExpOf(x, ExpPoly(RoundTo(IF x.n < 0 THEN Neg(x) ELSE x, ExpScale)))

\* {...base, ...update}: the fields of update override those of base
Merge(base, update) ==
  [f \in (DOMAIN base) \cup (DOMAIN update) |->
     IF f \in DOMAIN update THEN update[f] ELSE base[f]]

---------------------------------------------------------------------------
(* VentilatorModel *)

DefaultSettings ==
  [mode |-> "pressure-control", pControl |-> I(20), peep |-> I(5),
   respiratoryRate |-> I(15), ieRatio |-> Q(1, 2), fio2 |-> Q(1, 2),
   triggerSensitivity |-> I(-2), riseTime |-> I(100)]

Period(s) == Div(I(60), s.respiratoryRate)
InspirationTime(s) ==
  Mul(Period(s), Div(I(1), Add(I(1), Div(I(1), s.ieRatio))))
ExpirationTime(s) == Sub(Period(s), InspirationTime(s))

NewVentilatorModel ==
  [settings |-> DefaultSettings,
   period |-> Period(DefaultSettings),
   inspirationTime |-> InspirationTime(DefaultSettings),
   expirationTime |-> ExpirationTime(DefaultSettings),
   currentTime |-> I(0), currentPhase |-> "expiration", phaseStartTime |-> I(0)]

\* An updateSettings that merges the settings and leaves the derived timing stale
updateSettingsOnly(v, newSettings) ==
  [v EXCEPT !.settings = Merge(v.settings, newSettings)]

updateSettings(v, newSettings) ==
  LET s == Merge(v.settings, newSettings)
  IN [v EXCEPT !.settings = s,
               !.period = Period(s),
               !.inspirationTime = InspirationTime(s),
               !.expirationTime = ExpirationTime(s)]

\* A cycle time that never wraps around at the end of a period
CycleTimeUnwrapped(v, time) == time

\* cycleTime of calculateTargetPressure
CycleTime(v, time) == JsMod(time, v.period)

\* The generator after calculateTargetPressure(time), given its cycleTime
PhaseAt(v, time, cycleTime) ==
  IF Lt(cycleTime, v.inspirationTime)
  THEN [v EXCEPT !.currentTime = time,
                 !.currentPhase = "inspiration",
                 !.phaseStartTime =
                    IF v.currentPhase # "inspiration"
                    THEN Sub(time, cycleTime) ELSE @]
  ELSE [v EXCEPT !.currentTime = time,
                 !.currentPhase = "expiration",
                 !.phaseStartTime =
                    IF v.currentPhase # "expiration"
                    THEN Add(Sub(time, cycleTime), v.inspirationTime) ELSE @]

\* The generator after calculateTargetPressure(time)
PhaseAfter(v, time) == PhaseAt(v, time, CycleTime(v, time))

\* The value calculateTargetPressure returns, given its cycleTime
TargetPressureAt(v, cycleTime) ==
  IF Lt(cycleTime, v.inspirationTime)
  THEN Add(v.settings.peep,
           Mul(v.settings.pControl,
               MathMin(I(1), Div(cycleTime, Div(v.settings.riseTime, I(1000))))))
  ELSE v.settings.peep

\* The value calculateTargetPressure(time) returns
calculateTargetPressure(v, time) == TargetPressureAt(v, CycleTime(v, time))

\* The object getState(time) returns, w being the generator after the call
StateOf(w, time, targetPressure) ==
  [time |-> time,
   targetPressure |-> targetPressure,
   phase |-> w.currentPhase,
   phaseTime |-> Sub(time, w.phaseStartTime),
   settings |-> w.settings]

\* The object getState(time) returns (the generator becomes PhaseAfter(v, time))
getState(v, time) ==
  StateOf(PhaseAfter(v, time), time, calculateTargetPressure(v, time))

---------------------------------------------------------------------------
(* BasicPatientModel *)

DefaultParameters ==
  [compliance |-> I(50), resistance |-> I(10), residualVolume |-> I(1000),
   ibw |-> I(70)]

\* An updatePredictedValues() that leaves currentVolume as it is
updatePredictedValuesOnly(p) ==
  LET ibw == p.parameters.ibw
      frc == Mul(Q(24, 10), ibw)
  IN [p EXCEPT !.calculatedParameters =
                  [predictedTLC |-> Mul(Q(799, 100), ibw),
                   predictedVC |-> Mul(Q(45, 10), ibw),
                   predictedRV |-> Mul(Q(131, 100), ibw),
                   predictedFRC |-> frc],
               !.parameters.residualVolume = frc]

\* The model after updatePredictedValues()
updatePredictedValues(p) ==
  LET ibw == p.parameters.ibw
      frc == Mul(Q(24, 10), ibw)
  IN [p EXCEPT !.calculatedParameters =
                  [predictedTLC |-> Mul(Q(799, 100), ibw),
                   predictedVC |-> Mul(Q(45, 10), ibw),
                   predictedRV |-> Mul(Q(131, 100), ibw),
                   predictedFRC |-> frc],
               !.parameters.residualVolume = frc,
               !.currentVolume = frc]

NewBasicPatientModel ==
  LET p0 == [parameters |-> DefaultParameters,
             calculatedParameters |->
               [predictedTLC |-> I(0), predictedVC |-> I(0),
                predictedRV |-> I(0), predictedFRC |-> I(0)],
             currentVolume |-> I(0), currentFlow |-> I(0),
             lastPressure |-> I(0), lastTime |-> I(0)]
      p1 == updatePredictedValues(p0)
  IN [p1 EXCEPT !.currentVolume = p1.parameters.residualVolume]

updateParameters(p, newParameters) ==
  LET q == [p EXCEPT !.parameters = Merge(p.parameters, newParameters)]
  IN IF "ibw" \in DOMAIN newParameters THEN updatePredictedValues(q) ELSE q

TimeConstant(par) == Mul(Mul(par.resistance, par.compliance), Q(1, 1000))

\* targetVolume of calculateLungState
BasicTargetVolume(par, pressure) ==
  Add(par.residualVolume,
      Mul(par.compliance,
          Sub(pressure, Div(par.residualVolume, par.compliance))))

\* 1 - Math.exp(-deltaTime / timeConstant)
Response(deltaTime, timeConstant) ==
  Sub(I(1), ExpNeg(Div(deltaTime, timeConstant)))

\* volumeChange of calculateLungState
BasicVolumeChange(p, pressure, deltaTime) ==
  Vol(Mul(Sub(BasicTargetVolume(p.parameters, pressure), p.currentVolume),
          Response(deltaTime, TimeConstant(p.parameters))))

\* The model after the body of calculateLungState, given deltaTime and volumeChange
BasicMoved(p, pressure, time, deltaTime, volumeChange) ==
  IF Gt(deltaTime, I(0))
  THEN [p EXCEPT !.currentVolume = Add(@, volumeChange),
                 !.currentFlow = Vol(Div(volumeChange, deltaTime)),
                 !.lastPressure = pressure,
                 !.lastTime = time]
  ELSE [p EXCEPT !.lastPressure = pressure, !.lastTime = time]

BasicElapsed(p, pressure, time, deltaTime) ==
  BasicMoved(p, pressure, time, deltaTime, BasicVolumeChange(p, pressure, deltaTime))

\* The model after calculateLungState(pressure, time)
BasicAfter(p, pressure, time) ==
  BasicElapsed(p, pressure, time, Sub(time, p.lastTime))

\* The object calculateLungState returns, read from the model after the call
BasicState(q, pressure, time) ==
  [volume |-> q.currentVolume,
   flow |-> q.currentFlow,
   pressure |-> pressure,
   time |-> time,
   parameters |-> q.parameters,
   tidalVolume |-> MathMax(I(0), Sub(q.currentVolume, q.parameters.residualVolume))]

---------------------------------------------------------------------------
(* AdvancedPatientModel *)

NumberOfUnits == 10

\* Math.random() results the model draws from
RandomValues == {I(0), Q(3, 10)}

\* The draws of one setupCOPDModel call: per unit, the compliance draw c and
\* the air-trapping draw t; even and odd units share their draws
RandomDraws ==
  { [i \in 0..(NumberOfUnits - 1) |-> IF i % 2 = 0 THEN e ELSE o] :
      e \in [c : RandomValues, t : RandomValues],
      o \in [c : {Q(3, 10)}, t : {Q(3, 10)}] }

HealthyUnit(i, n) ==
  LET dorsalPosition == Div(I(i), I(n - 1))
  IN [id |-> i,
      position |-> dorsalPosition,
      openingPressure |-> Add(I(5), Mul(dorsalPosition, I(2))),
      closingPressure |-> Add(I(2), Mul(dorsalPosition, I(2))),
      compliance |-> Div(I(50), I(n)),
      isOpen |-> TRUE,
      volume |-> I(0),
      perfusion |-> Sub(I(1), Mul(Q(2, 10), dorsalPosition)),
      pathology |-> "normal"]

\* alveolarUnits after initializeHealthyLungs()
initializeHealthyLungs(n) == [j \in 1..n |-> HealthyUnit(j - 1, n)]

severityFactors ==
  [mild |-> [openingFactor |-> Q(3, 2), closedUnitsPct |-> Q(2, 10),
             complianceFactor |-> Q(7, 10)],
   moderate |-> [openingFactor |-> I(2), closedUnitsPct |-> Q(4, 10),
                 complianceFactor |-> Q(5, 10)],
   severe |-> [openingFactor |-> I(3), closedUnitsPct |-> Q(6, 10),
               complianceFactor |-> Q(3, 10)]]

ARDSUnit(unit, factor, n) ==
  LET consolidated == Gt(unit.position, Sub(I(1), factor.closedUnitsPct))
      compliance == Mul(Div(I(50), I(n)), factor.complianceFactor)
  IN [unit EXCEPT
        !.openingPressure =
           Mul(Add(I(5), Mul(unit.position, I(5))), factor.openingFactor),
        !.closingPressure =
           Mul(Add(I(2), Mul(unit.position, I(5))), factor.openingFactor),
        !.compliance =
           IF consolidated THEN Mul(compliance, Q(1, 10)) ELSE compliance,
        !.isOpen = IF consolidated THEN FALSE ELSE @,
        !.pathology = IF consolidated THEN "consolidated" ELSE @]

\* alveolarUnits after setupARDSModel(severity)
setupARDSModel(severity, n) ==
  LET healthy == initializeHealthyLungs(n)
  IN [j \in 1..n |-> ARDSUnit(healthy[j], severityFactors[severity], n)]

COPDUnit(unit, draw, n) ==
  [unit EXCEPT
     !.openingPressure = Add(I(3), Mul(unit.position, I(1))),
     !.closingPressure = Add(I(1), Mul(unit.position, Q(1, 2))),
     !.compliance = Mul(Div(I(80), I(n)), Add(I(1), Mul(Q(1, 2), draw.c))),
     !.pathology = IF Lt(draw.t, Q(3, 10)) THEN "air-trapped" ELSE @]

\* alveolarUnits after setupCOPDModel(), given the Math.random() draws
setupCOPDModel(draws, n) ==
  LET healthy == initializeHealthyLungs(n)
  IN [j \in 1..n |-> COPDUnit(healthy[j], draws[j - 1], n)]

NewAdvancedPatientModel(n) ==
  [alveolarUnits |-> initializeHealthyLungs(n),
   numberOfUnits |-> n,
   residualVolume |-> I(1000),
   currentVolume |-> I(0), currentFlow |-> I(0),
   lastPressure |-> I(0), lastTime |-> I(0),
   unitStates |-> << >>]

\* effectivePressure of a unit under airway pressure
EffectivePressure(unit, pressure) == Sub(pressure, Mul(unit.position, I(2)))

\* A gate that lets a closed unit open as soon as it is above its closing pressure
GateOpenEarly(unit, effectivePressure) ==
  IF ~unit.isOpen /\ Gt(effectivePressure, unit.closingPressure) THEN TRUE
  ELSE IF unit.isOpen /\ Lt(effectivePressure, unit.closingPressure) THEN FALSE
  ELSE unit.isOpen

\* isOpen after the recruitment/derecruitment check
GateOpen(unit, effectivePressure) ==
  IF ~unit.isOpen /\ Gt(effectivePressure, unit.openingPressure) THEN TRUE
  ELSE IF unit.isOpen /\ Lt(effectivePressure, unit.closingPressure) THEN FALSE
  ELSE unit.isOpen

UnitTargetVolume(unit, open, effectivePressure) ==
  IF open THEN Mul(unit.compliance, effectivePressure)
  ELSE IF unit.pathology = "air-trapped" THEN Mul(unit.volume, Q(9, 10))
  ELSE I(0)

UnitTimeConstant == Q(1, 20)

UnitVolumeChange(unit, open, effectivePressure, deltaTime) ==
  Vol(Mul(Sub(UnitTargetVolume(unit, open, effectivePressure), unit.volume),
          Response(deltaTime, UnitTimeConstant)))

\* A unit after isOpen and volume are updated
UnitMoved(unit, open, volumeChange) ==
  [unit EXCEPT !.isOpen = open, !.volume = Add(@, volumeChange)]

UnitGated(unit, open, effectivePressure, deltaTime) ==
  UnitMoved(unit, open, UnitVolumeChange(unit, open, effectivePressure, deltaTime))

UnitPressed(unit, effectivePressure, deltaTime) ==
  UnitGated(unit, GateOpen(unit, effectivePressure), effectivePressure, deltaTime)

\* One unit after its update in calculateLungState
UnitAfter(unit, pressure, deltaTime) ==
  UnitPressed(unit, EffectivePressure(unit, pressure), deltaTime)

\* {...unit, effectivePressure, flow: unitFlow} of the updated unit
UnitReport(unit, open, effectivePressure, volumeChange, deltaTime) ==
  Merge(UnitMoved(unit, open, volumeChange),
        [effectivePressure |-> effectivePressure,
         flow |-> Vol(Div(volumeChange, deltaTime))])

UnitStateGated(unit, open, effectivePressure, deltaTime) ==
  UnitReport(unit, open, effectivePressure,
             UnitVolumeChange(unit, open, effectivePressure, deltaTime), deltaTime)

UnitStatePressed(unit, effectivePressure, deltaTime) ==
  UnitStateGated(unit, GateOpen(unit, effectivePressure), effectivePressure, deltaTime)

\* The entry of unitStates for a unit
UnitState(unit, pressure, deltaTime) ==
  UnitStatePressed(unit, EffectivePressure(unit, pressure), deltaTime)

RECURSIVE SumField(_, _, _)
SumField(seq, field, acc) ==
  IF seq = << >> THEN acc
  ELSE SumField(Tail(seq), field, Add(acc, Head(seq)[field]))

\* The model after the body of calculateLungState, given the updated units and
\* their unitStates entries
AdvancedMoved(a, pressure, time, units, states) ==
  [a EXCEPT !.alveolarUnits = units,
            !.unitStates = states,
            !.currentVolume = SumField(units, "volume", a.residualVolume),
            !.currentFlow = SumField(states, "flow", I(0)),
            !.lastPressure = pressure,
            !.lastTime = time]

AdvancedElapsed(a, pressure, time, deltaTime) ==
  IF Gt(deltaTime, I(0))
  THEN AdvancedMoved(a, pressure, time,
         [j \in 1..Len(a.alveolarUnits) |->
            UnitAfter(a.alveolarUnits[j], pressure, deltaTime)],
         [j \in 1..Len(a.alveolarUnits) |->
            UnitState(a.alveolarUnits[j], pressure, deltaTime)])
  ELSE [a EXCEPT !.currentVolume = a.residualVolume,
                 !.currentFlow = I(0),
                 !.lastPressure = pressure,
                 !.lastTime = time]

\* The model after calculateLungState(pressure, time)
AdvancedAfter(a, pressure, time) ==
  AdvancedElapsed(a, pressure, time, Sub(time, a.lastTime))

\* The object calculateLungState returns, read from the model after the call
AdvancedState(b, pressure, time) ==
  [volume |-> b.currentVolume,
   flow |-> b.currentFlow,
   pressure |-> pressure,
   time |-> time,
   unitStates |-> b.unitStates,
   recruitedUnits |-> Cardinality({j \in 1..Len(b.unitStates) : b.unitStates[j].isOpen})]

---------------------------------------------------------------------------
(* VentilatorSimulation *)

\* timeStep = 0.01 s, as a fraction 1/TimeStepDen
TimeStepDen == 100
timeStep == Q(1, TimeStepDen)

\* maxDataPoints of step(): 10 / timeStep
HistoryWindow == 10
maxDataPoints == Div(I(HistoryWindow), timeStep)

\* The snapshot initializeData() pushes, given the generator and basic model
InitialSnapshot(v, p) ==
  [time |-> I(0),
   ventilator |-> getState(v, I(0)),
   patient |-> [volume |-> p.parameters.residualVolume,
                flow |-> I(0),
                pressure |-> v.settings.peep,
                time |-> I(0),
                parameters |-> p.parameters,
                tidalVolume |-> I(0)]]

\* Observer of breath cycles: cycle = index of the cycle of the last tick,
\* flips = Inspiration->Expiration changes seen in it, doneFlips = those seen
\* in the cycle that ended last, clean = settings unchanged since time 0
NewBreath ==
  [cycle |-> 0, flips |-> 0, done |-> FALSE, doneFlips |-> 0, clean |-> TRUE]

BreathCounted(b, k, flip) ==
  IF k = b.cycle THEN [b EXCEPT !.flips = @ + flip]
  ELSE [b EXCEPT !.cycle = k, !.flips = flip, !.done = TRUE,
                 !.doneFlips = IF k = b.cycle + 1 THEN b.flips ELSE 0]

BreathAfter(b, v, w, time) ==
  BreathCounted(b,
    IF IsFin(v.period) /\ Gt(v.period, I(0))
    THEN Floor(Div(time, v.period)) ELSE b.cycle,
    IF v.currentPhase = "inspiration" /\ w.currentPhase = "expiration"
    THEN 1 ELSE 0)

\* A history that only grows
RecordAll(data, state) == Append(data, state)

\* The history after push(state) and the eviction of step()
Record(data, state) ==
  LET pushed == Append(data, state)
  IN IF Gt(I(Len(pushed)), maxDataPoints) THEN Tail(pushed) ELSE pushed

\* A pause() that leaves its interval timer scheduled
KeepTimers == timers

\* pause(): the timers left scheduled
PauseTimers == IF isRunning THEN timers \ {simulationInterval} ELSE timers

\* Nobody has called getData() yet
NoReader == [held |-> FALSE, live |-> FALSE, read |-> << >>, last |-> << >>]

\* The reader after getData(): it holds the array this.simulationData refers to
\* (live), and has read the contents the array has now
ReaderOf(data) == [held |-> TRUE, live |-> TRUE, read |-> data, last |-> << >>]

\* The reader after this.simulationData = []: the array it holds is no longer the
\* engine's, and keeps the contents it had
ReaderLeft ==
  IF reader.held /\ reader.live
  THEN [reader EXCEPT !.live = FALSE, !.last = simulationData]
  ELSE reader

\* The contents of the array the reader holds
ReaderView == IF reader.live THEN simulationData ELSE reader.last

\* The fields of the engine that step() reads and writes, with the observer
Engine ==
  [ventilator |-> ventilator, patient |-> patient,
   advancedPatient |-> advancedPatient, useAdvancedModel |-> useAdvancedModel,
   currentTime |-> currentTime, simulationData |-> simulationData,
   breath |-> breath]

\* The engine e after step(), given the new time, the ventilator state and the
\* generator and the lung models after their calculateLungState
StepRecorded(e, time, ventilatorState, w, q, b) ==
  [e EXCEPT
     !.currentTime = time,
     !.ventilator = w,
     !.patient = IF e.useAdvancedModel THEN @ ELSE q,
     !.advancedPatient = IF e.useAdvancedModel THEN b ELSE @,
     !.simulationData =
        Record(@, [time |-> time,
                   ventilator |-> ventilatorState,
                   patient |-> IF e.useAdvancedModel
                               THEN AdvancedState(b, ventilatorState.targetPressure, time)
                               ELSE BasicState(q, ventilatorState.targetPressure, time)]),
     !.breath = BreathAfter(@, e.ventilator, w, time)]

StepVentilated(e, time, ventilatorState) ==
  StepRecorded(e, time, ventilatorState, PhaseAfter(e.ventilator, time),
               BasicAfter(e.patient, ventilatorState.targetPressure, time),
               AdvancedAfter(e.advancedPatient, ventilatorState.targetPressure, time))

StepAt(e, time) == StepVentilated(e, time, getState(e.ventilator, time))

\* The object step() returns when called on the engine e: the state it has built
\* and pushed
StepState(e, time, ventilatorState) ==
  [time |-> time,
   ventilator |-> ventilatorState,
   patient |->
     IF e.useAdvancedModel
     THEN AdvancedState(AdvancedAfter(e.advancedPatient,
                                      ventilatorState.targetPressure, time),
                        ventilatorState.targetPressure, time)
     ELSE BasicState(BasicAfter(e.patient, ventilatorState.targetPressure, time),
                     ventilatorState.targetPressure, time)]

StepReturns(e, time) == StepState(e, time, getState(e.ventilator, time))

\* A step() that advances the time by two time steps
SteppedFar(e) == StepAt(e, Add(e.currentTime, Mul(I(2), timeStep)))

\* The engine e after step()
Stepped(e) == StepAt(e, Add(e.currentTime, timeStep))

\* The engine e after n calls of step() (the test of e.simulationData has the
\* engine of each call evaluated before the next call is taken up)
RECURSIVE SteppedTimes(_, _)
SteppedTimes(e, n) ==
  IF n = 0 \/ e.simulationData = << >> THEN e ELSE SteppedTimes(Stepped(e), n - 1)

\* The engine's fields become those of e; the driver is left alone
EngineBecomes(e) ==
  /\ ventilator' = e.ventilator
  /\ patient' = e.patient
  /\ advancedPatient' = e.advancedPatient
  /\ currentTime' = e.currentTime
  /\ simulationData' = e.simulationData
  /\ breath' = e.breath
  /\ UNCHANGED <<useAdvancedModel, isRunning, simulationInterval, timers,
                 nextTimerId, reader>>

\* step()
StepEffect == EngineBecomes(Stepped(Engine))

\* A reset that rebuilds the generator and the basic model but keeps the advanced
\* model it finds
ResetSharing(advanced) ==
  /\ timers' = PauseTimers
  /\ isRunning' = FALSE
  /\ currentTime' = I(0)
  /\ ventilator' = PhaseAfter(NewVentilatorModel, I(0))
  /\ patient' = IF advanced THEN patient ELSE NewBasicPatientModel
  /\ advancedPatient' = advancedPatient
  /\ simulationData' =
       << InitialSnapshot(NewVentilatorModel,
                          IF advanced THEN patient ELSE NewBasicPatientModel) >>
  /\ breath' = NewBreath
  /\ reader' = ReaderLeft
  /\ UNCHANGED <<simulationInterval, nextTimerId>>

\* resetSimulation(), with useAdvancedModel already set to advanced
ResetEffect(advanced) ==
  LET v == NewVentilatorModel
      p == IF advanced THEN patient ELSE NewBasicPatientModel
  IN /\ timers' = PauseTimers
     /\ isRunning' = FALSE
     /\ currentTime' = I(0)
     /\ ventilator' = PhaseAfter(v, I(0))
     /\ patient' = p
     /\ advancedPatient' = IF advanced THEN NewAdvancedPatientModel(NumberOfUnits)
                           ELSE advancedPatient
     /\ simulationData' = << InitialSnapshot(v, p) >>
     /\ breath' = NewBreath
     /\ reader' = ReaderLeft
     /\ UNCHANGED <<simulationInterval, nextTimerId>>

CanTick(limit) == Lt(currentTime, Mul(I(limit), timeStep))
CanConfigure == nOps < MaxOps
AtStart == currentTime = I(0) /\ Len(simulationData) = 1

\* A direct call of step()
StepWithin(limit) ==
  /\ variant = "class" /\ CanTick(limit)
  /\ StepEffect
  /\ lastOp' = [op |-> "step", arg |-> 0]
  /\ UNCHANGED <<variant, legacy, nOps>>

Step == StepWithin(MaxTicks)

\* The interval callback of start() fires
TimerFire ==
  /\ variant = "class" /\ CanTick(MaxTicks)
  /\ timers # {}
  /\ StepEffect
  /\ lastOp' = [op |-> "timerStep", arg |-> 0]
  /\ UNCHANGED <<variant, legacy, nOps>>

\* start(callback)
Start ==
  /\ variant = "class"
  /\ isRunning \/ nextTimerId <= MaxTimers
  /\ IF ~isRunning
     THEN /\ isRunning' = TRUE
          /\ simulationInterval' = nextTimerId
          /\ timers' = timers \cup {nextTimerId}
          /\ nextTimerId' = nextTimerId + 1
     ELSE UNCHANGED <<isRunning, simulationInterval, timers, nextTimerId>>
  /\ lastOp' = [op |-> "start", arg |-> 0]
  /\ UNCHANGED <<variant, ventilator, patient, advancedPatient, useAdvancedModel,
                 currentTime, simulationData, legacy, breath, nOps, reader>>

\* A pause() that also takes the clock back to 0
PauseLosing ==
  /\ variant = "class"
  /\ timers' = PauseTimers
  /\ isRunning' = FALSE
  /\ currentTime' = I(0)
  /\ lastOp' = [op |-> "pause", arg |-> 0]
  /\ UNCHANGED <<variant, ventilator, patient, advancedPatient, useAdvancedModel,
                 simulationData, simulationInterval, nextTimerId,
                 legacy, breath, nOps, reader>>

\* pause()
Pause ==
  /\ variant = "class"
  /\ timers' = PauseTimers
  /\ isRunning' = FALSE
  /\ lastOp' = [op |-> "pause", arg |-> 0]
  /\ UNCHANGED <<variant, ventilator, patient, advancedPatient, useAdvancedModel,
                 currentTime, simulationData, simulationInterval, nextTimerId,
                 legacy, breath, nOps, reader>>

\* getData()
GetData ==
  /\ variant = "class"
  /\ reader' = ReaderOf(simulationData)
  /\ lastOp' = [op |-> "getData", arg |-> 0]
  /\ UNCHANGED <<variant, ventilator, patient, advancedPatient, useAdvancedModel,
                 currentTime, simulationData, isRunning, simulationInterval, timers,
                 nextTimerId, legacy, breath, nOps>>

\* resetSimulation()
ResetSimulation ==
  /\ variant = "class" /\ CanConfigure
  /\ ResetEffect(useAdvancedModel)
  /\ UNCHANGED useAdvancedModel
  /\ lastOp' = [op |-> "resetSimulation", arg |-> 0]
  /\ nOps' = nOps + 1
  /\ UNCHANGED <<variant, legacy>>

\* setPatientModel(useAdvanced)
SetPatientModelCall ==
  /\ variant = "class"
  /\ \E useAdvanced \in BOOLEAN :
       /\ useAdvancedModel' = useAdvanced
       /\ ResetEffect(useAdvanced)
       /\ lastOp' = [op |-> "setPatientModel", arg |-> useAdvanced]
  /\ nOps' = nOps + 1
  /\ UNCHANGED <<variant, legacy>>

SetPatientModel == CanConfigure /\ SetPatientModelCall

\* Arguments of updateVentilatorSettings the model draws from
SettingsUpdates ==
  << [respiratoryRate |-> I(3000), ieRatio |-> I(1)],
     [peep |-> I(8), pControl |-> I(10), riseTime |-> I(20)],
     [riseTime |-> I(0)],
     [respiratoryRate |-> I(0)],
     [ieRatio |-> I(0)],
     [ieRatio |-> I(-1)] >>

\* updateVentilatorSettings(settings), the argument drawn from inputs
UpdateVentilatorSettingsFrom(inputs) ==
  /\ variant = "class"
  /\ \E i \in 1..Len(inputs) :
       /\ ventilator' = updateSettings(ventilator, inputs[i])
       /\ lastOp' = [op |-> "updateVentilatorSettings", arg |-> inputs[i]]
  /\ breath' = [breath EXCEPT !.clean = @ /\ AtStart]
  /\ nOps' = nOps + 1
  /\ UNCHANGED <<variant, patient, advancedPatient, useAdvancedModel, currentTime,
                 simulationData, isRunning, simulationInterval, timers,
                 nextTimerId, legacy, reader>>

UpdateVentilatorSettings == CanConfigure /\ UpdateVentilatorSettingsFrom(SettingsUpdates)

NoParameters == [f \in {} |-> I(0)]

\* Arguments (parameters, patientType) of updatePatientParameters
PatientUpdates ==
  << [parameters |-> [compliance |-> I(30)], patientType |-> "null"],
     [parameters |-> [ibw |-> I(50)], patientType |-> "null"],
     [parameters |-> [compliance |-> I(0)], patientType |-> "null"],
     [parameters |-> [resistance |-> I(-10)], patientType |-> "null"],
     [parameters |-> [residualVolume |-> I(1200)], patientType |-> "null"],
     [parameters |-> [ibw |-> I(60), residualVolume |-> I(800)],
      patientType |-> "null"],
     [parameters |-> NoParameters, patientType |-> "normal"],
     [parameters |-> [severity |-> "mild"], patientType |-> "ARDS"],
     [parameters |-> [severity |-> "severe"], patientType |-> "ARDS"],
     [parameters |-> NoParameters, patientType |-> "COPD"] >>

\* advancedPatient after the preset branch of updatePatientParameters
PresetUnits(a, parameters, patientType, draws) ==
  IF patientType = "ARDS"
  THEN [a EXCEPT !.alveolarUnits =
          setupARDSModel(IF "severity" \in DOMAIN parameters
                         THEN parameters.severity ELSE "moderate",
                         a.numberOfUnits),
                 !.residualVolume = I(1000)]
  ELSE IF patientType = "COPD"
  THEN [a EXCEPT !.alveolarUnits = setupCOPDModel(draws, a.numberOfUnits),
                 !.residualVolume = I(1000)]
  ELSE a

\* updatePatientParameters(parameters, patientType), the arguments drawn from inputs
UpdatePatientParametersFrom(inputs) ==
  /\ variant = "class"
  /\ \E i \in 1..Len(inputs) :
       LET u == inputs[i]
       IN /\ IF ~useAdvancedModel
             THEN /\ patient' = updateParameters(patient, u.parameters)
                  /\ UNCHANGED advancedPatient
             ELSE /\ \E draws \in IF u.patientType = "COPD" THEN RandomDraws
                                  ELSE {[j \in 0..(NumberOfUnits - 1) |->
                                           [c |-> I(0), t |-> I(0)]]} :
                       advancedPatient' =
                         PresetUnits(advancedPatient, u.parameters, u.patientType, draws)
                  /\ UNCHANGED patient
          /\ lastOp' = [op |-> "updatePatientParameters", arg |-> u]
  /\ nOps' = nOps + 1
  /\ UNCHANGED <<variant, ventilator, useAdvancedModel, currentTime, simulationData,
                 isRunning, simulationInterval, timers, nextTimerId, legacy, breath,
                 reader>>

UpdatePatientParameters == CanConfigure /\ UpdatePatientParametersFrom(PatientUpdates)

\* The engine right after new VentilatorSimulation()
InitClass ==
  /\ ventilator = PhaseAfter(NewVentilatorModel, I(0))
  /\ patient = NewBasicPatientModel
  /\ advancedPatient = NewAdvancedPatientModel(NumberOfUnits)
  /\ useAdvancedModel = FALSE
  /\ currentTime = I(0)
  /\ simulationData = << InitialSnapshot(NewVentilatorModel, NewBasicPatientModel) >>
  /\ isRunning = FALSE
  /\ simulationInterval = 0
  /\ timers = {}
  /\ nextTimerId = 1
  /\ breath = NewBreath
  /\ reader = NoReader

---------------------------------------------------------------------------
(* The legacy core: simulation-core.js (times in milliseconds) *)

LegacyDefaultSettings ==
  [mode |-> "PCV", peep |-> I(5), pip |-> I(20), rate |-> I(15),
   ieRatio |-> Q(1, 2), tidalVolume |-> I(500), fio2 |-> I(40),
   triggerSensitivity |-> I(2)]

LegacyDefaultParameters ==
  [compliance |-> I(50), resistance |-> I(10), lungModel |-> "normal"]

\* calculateBreathTiming(): totalBreathTime, inspirationTime, expirationTime
LegacyTotalBreathTime(s) == Mul(Div(I(60), s.rate), I(1000))
LegacyInspirationTime(s) ==
  Mul(LegacyTotalBreathTime(s), Div(s.ieRatio, Add(s.ieRatio, I(1))))
LegacyExpirationTime(s) == Sub(LegacyTotalBreathTime(s), LegacyInspirationTime(s))

calculateBreathTiming(l) ==
  [l EXCEPT !.totalBreathTime = LegacyTotalBreathTime(l.ventilatorSettings),
            !.inspirationTime = LegacyInspirationTime(l.ventilatorSettings),
            !.expirationTime = LegacyExpirationTime(l.ventilatorSettings)]

\* [min, max] of openingPressure, closingPressure and compliance per lung model
LegacyRanges(lungModel) ==
  CASE lungModel = "ards" ->
         [opening |-> <<I(10), I(25)>>, closing |-> <<I(5), I(15)>>,
          compliance |-> <<I(10), I(30)>>]
    [] lungModel = "copd" ->
         [opening |-> <<I(2), I(10)>>, closing |-> <<I(1), I(5)>>,
          compliance |-> <<I(80), I(120)>>]
    [] lungModel = "asthma" ->
         [opening |-> <<I(5), I(15)>>, closing |-> <<I(2), I(8)>>,
          compliance |-> <<I(30), I(60)>>]
    [] OTHER ->
         [opening |-> <<I(2), I(5)>>, closing |-> <<I(1), I(3)>>,
          compliance |-> <<I(40), I(60)>>]

\* randomInRange(min, max), given the Math.random() draw r
randomInRange(range, r) == Add(range[1], Mul(r, Sub(range[2], range[1])))

LegacyNumUnits == 10

\* The four Math.random() draws of one unit: opening, closing, compliance, perfusion
LegacyUnitDraws ==
  { [o |-> I(0), c |-> I(0), k |-> I(0), p |-> I(0)],
    [o |-> I(0), c |-> Q(99, 100), k |-> Q(1, 2), p |-> Q(1, 2)],
    [o |-> Q(99, 100), c |-> I(0), k |-> Q(99, 100), p |-> Q(99, 100)] }

\* The draws of one initializeLungUnits call; even and odd units share theirs
LegacyDraws ==
  { [i \in 0..(LegacyNumUnits - 1) |-> IF i % 2 = 0 THEN e ELSE o] :
      e \in LegacyUnitDraws,
      o \in {d \in LegacyUnitDraws : d.o = I(0)} }

LegacyUnit(i, ranges, draw) ==
  [id |-> i,
   position |-> Div(I(i), I(LegacyNumUnits)),
   openingPressure |-> randomInRange(ranges.opening, draw.o),
   closingPressure |-> randomInRange(ranges.closing, draw.c),
   compliance |-> randomInRange(ranges.compliance, draw.k),
   isOpen |-> FALSE,
   volume |-> I(0),
   perfusion |-> randomInRange(<<Q(1, 2), Q(3, 2)>>, draw.p)]

\* lungUnits after initializeLungUnits(), given the draws
initializeLungUnits(l, draws) ==
  [l EXCEPT !.lungUnits =
     [j \in 1..LegacyNumUnits |->
        LegacyUnit(j - 1, LegacyRanges(l.patientParameters.lungModel), draws[j - 1])]]

\* isOpen of a legacy unit after the recruitment/derecruitment check
LegacyGateOpen(unit, effectivePressure) ==
  IF ~unit.isOpen /\ Ge(effectivePressure, unit.openingPressure) THEN TRUE
  ELSE IF unit.isOpen /\ Le(effectivePressure, unit.closingPressure) THEN FALSE
  ELSE unit.isOpen

LegacyEffectivePressure(unit, currentPressure) ==
  Sub(currentPressure, Mul(unit.position, I(5)))

\* targetVolume of an open unit
LegacyTargetVolume(l, unit, effectivePressure) ==
  Vol(Mul(Sub(effectivePressure, l.ventilatorSettings.peep),
          Div(unit.compliance, I(Len(l.lungUnits)))))

\* unitTimeConstant of an open unit
LegacyUnitTimeConstant(l, unit) ==
  Mul(Mul(l.patientParameters.resistance, l.patientParameters.compliance),
      Add(Q(8, 10), Mul(unit.position, Q(4, 10))))

\* volume of a unit after the volume update, open being its isOpen after the gate
LegacyUnitVolume(l, unit, open, effectivePressure, deltaTime) ==
  IF open
  THEN Vol(Add(unit.volume,
               Mul(Sub(LegacyTargetVolume(l, unit, effectivePressure), unit.volume),
                   Response(deltaTime, LegacyUnitTimeConstant(l, unit)))))
  ELSE Vol(Mul(unit.volume, ExpNeg(Div(deltaTime, I(100)))))

LegacyUnitGated(l, unit, open, effectivePressure, deltaTime) ==
  [unit EXCEPT
     !.isOpen = open,
     !.volume = LegacyUnitVolume(l, unit, open, effectivePressure, deltaTime)]

LegacyUnitPressed(l, unit, effectivePressure, deltaTime) ==
  LegacyUnitGated(l, unit, LegacyGateOpen(unit, effectivePressure),
                  effectivePressure, deltaTime)

\* One unit after its update in updateLungUnits
LegacyUnitAfter(l, unit, currentPressure, deltaTime) ==
  LegacyUnitPressed(l, unit, LegacyEffectivePressure(unit, currentPressure), deltaTime)

updateLungUnits(l, currentPressure, deltaTime) ==
  [j \in 1..Len(l.lungUnits) |->
     LegacyUnitAfter(l, l.lungUnits[j], currentPressure, deltaTime)]

\* Math.pow(x, 0.7) on [0, 1]: the concave approximant 17x / (10 + 7x)
Pow07(x) == IF IsFin(x) THEN Div(Mul(I(17), x), Add(I(10), Mul(I(7), x))) ELSE x

PressScale == 1000

\* targetPressure of simulationStep for a phase and its timer
LegacyTargetPressure(l, phase, timer) ==
  IF phase = "inspiration"
  THEN Add(l.ventilatorSettings.peep,
           Mul(Sub(l.ventilatorSettings.pip, l.ventilatorSettings.peep),
               Pow07(MathMin(Div(timer, l.inspirationTime), I(1)))))
  ELSE Sub(l.ventilatorSettings.pip,
           Mul(Sub(l.ventilatorSettings.pip, l.ventilatorSettings.peep),
               Sub(I(1), ExpNeg(Mul(I(5), MathMin(Div(timer, l.expirationTime),
                                                  I(1)))))))

\* The legacy state after simulationStep(), deltaTime being Date.now() - prevTime
\* Whether simulationStep switches the breath phase, timer being the advanced
\* breathTimer
LegacySwitch(l, timer) ==
  \/ l.breathPhase = "inspiration" /\ Ge(timer, l.inspirationTime)
  \/ l.breathPhase = "expiration" /\ Ge(timer, l.expirationTime)

LegacyOtherPhase(phase) ==
  IF phase = "inspiration" THEN "expiration" ELSE "inspiration"

\* The last part of simulationStep: volume, flow and the result
LegacySummed(l, deltaTime, phase, breathTimer, pressure, units, volume) ==
  [l EXCEPT !.breathPhase = phase,
            !.breathTimer = breathTimer,
            !.pressure = pressure,
            !.lungUnits = units,
            !.volume = volume,
            !.flow = Vol(Mul(Div(Sub(volume, l.previousVolume), deltaTime), I(60))),
            !.previousVolume = volume,
            !.steps = @ + 1]

LegacyInflated(l, deltaTime, phase, breathTimer, pressure, units) ==
  LegacySummed(l, deltaTime, phase, breathTimer, pressure, units,
               SumField(units, "volume", I(0)))

\* The pressure lag and updateLungUnits(pressure, deltaTime)
LegacyPressed(l, deltaTime, phase, breathTimer, pressure) ==
  LegacyInflated(l, deltaTime, phase, breathTimer, pressure,
                 updateLungUnits(l, pressure, deltaTime))

\* The target pressure of the phase and the lagged pressure
LegacyPhased(l, deltaTime, phase, breathTimer) ==
  LegacyPressed(l, deltaTime, phase, breathTimer,
    RoundTo(Add(l.pressure,
                Mul(Sub(LegacyTargetPressure(l, phase, breathTimer), l.pressure),
                    Q(1, 10))),
            PressScale))

\* The breath timer advanced and the phase switched when its time is up
LegacyTimed(l, deltaTime, timer) ==
  IF LegacySwitch(l, timer)
  THEN LegacyPhased(l, deltaTime, LegacyOtherPhase(l.breathPhase), I(0))
  ELSE LegacyPhased(l, deltaTime, l.breathPhase, timer)

\* The time since initialization advanced by deltaTime, and the time noted at
\* which simulationStep switches from expiration to inspiration
LegacyClocked(l, deltaTime, timer) ==
  [l EXCEPT !.elapsed = Add(@, deltaTime),
            !.inspirations =
               IF l.breathPhase = "expiration" /\ LegacySwitch(l, timer)
               THEN Append(@, Add(l.elapsed, deltaTime)) ELSE @]

simulationStep(l, deltaTime) ==
  LegacyTimed(LegacyClocked(l, deltaTime, Add(l.breathTimer, deltaTime)),
              deltaTime, Add(l.breathTimer, deltaTime))

\* The module-level state when the scripts have loaded: that of the core, the
\* steps taken and their times, and that of the app (simulationRunning, the
\* intervals that setInterval has started and that are not cleared, and those
\* that were live at a stop)
LegacyLoaded ==
  [ventilatorSettings |-> LegacyDefaultSettings,
   patientParameters |-> LegacyDefaultParameters,
   breathPhase |-> "expiration", breathTimer |-> I(0),
   totalBreathTime |-> I(0), inspirationTime |-> I(0), expirationTime |-> I(0),
   pressure |-> I(0), volume |-> I(0), flow |-> I(0),
   lungUnits |-> << >>, previousVolume |-> I(0),
   initialized |-> FALSE, steps |-> 0,
   elapsed |-> I(0), inspirations |-> << >>,
   simulationRunning |-> FALSE, intervals |-> {}, nextInterval |-> 1,
   stopped |-> {}]

\* Date.now() - prevTime in ms: a 60 Hz frame and a throttled background timer
LegacyDeltas == {16, 1000}

LegacySettingsUpdates ==
  << [rate |-> I(30)],
     [ieRatio |-> I(1), peep |-> I(8)],
     [rate |-> I(0)],
     [ieRatio |-> I(-1)] >>

LegacyParameterUpdates ==
  << [compliance |-> I(30)],
     [lungModel |-> "ards"],
     [lungModel |-> "copd"],
     [lungModel |-> "asthma"] >>

\* The state after initializeSimulation(settings, parameters), given the draws
initializeSimulation(l, draws) ==
  [initializeLungUnits(
     calculateBreathTiming(
       [l EXCEPT !.ventilatorSettings = Merge(@, LegacyDefaultSettings),
                 !.patientParameters = Merge(@, LegacyDefaultParameters)]),
     draws)
   EXCEPT !.initialized = TRUE]

\* initializeSimulation(settings, parameters), as initializeApp calls it
LegacyInitialize ==
  /\ variant = "legacy" /\ ~legacy.initialized
  /\ \E draws \in LegacyDraws : legacy' = initializeSimulation(legacy, draws)
  /\ lastOp' = [op |-> "initialize", arg |-> 0]
  /\ UNCHANGED <<variant, nOps>> /\ UNCHANGED classVars

\* updateVentilatorSettings(newSettings) of the legacy core
LegacyUpdateVentilatorSettings ==
  /\ variant = "legacy" /\ legacy.initialized /\ CanConfigure
  /\ \E i \in 1..Len(LegacySettingsUpdates) :
       /\ legacy' = calculateBreathTiming(
                      [legacy EXCEPT !.ventilatorSettings =
                                        Merge(@, LegacySettingsUpdates[i])])
       /\ lastOp' = [op |-> "legacyUpdateVentilatorSettings",
                     arg |-> LegacySettingsUpdates[i]]
  /\ nOps' = nOps + 1
  /\ UNCHANGED variant /\ UNCHANGED classVars

\* updatePatientParameters(newParameters) of the legacy core
LegacyUpdatePatientParameters ==
  /\ variant = "legacy" /\ legacy.initialized /\ CanConfigure
  /\ \E i \in 1..Len(LegacyParameterUpdates), draws \in LegacyDraws :
       /\ legacy' = initializeLungUnits(
                      [legacy EXCEPT !.patientParameters =
                                        Merge(@, LegacyParameterUpdates[i])],
                      draws)
       /\ lastOp' = [op |-> "legacyUpdatePatientParameters",
                     arg |-> LegacyParameterUpdates[i]]
  /\ nOps' = nOps + 1
  /\ UNCHANGED variant /\ UNCHANGED classVars

\* One firing of the step loop: SimulationCore.step()
LegacyStepFrom(limit, deltas) ==
  /\ variant = "legacy" /\ legacy.initialized
  /\ legacy.steps < limit
  /\ \E deltaTime \in deltas :
       /\ legacy' = simulationStep(legacy, I(deltaTime))
       /\ lastOp' = [op |-> "legacyStep", arg |-> deltaTime]
  /\ UNCHANGED <<variant, nOps>> /\ UNCHANGED classVars

LegacyStepWithin(limit) == LegacyStepFrom(limit, LegacyDeltas)

LegacyStep == LegacyStepWithin(MaxTicks)

---------------------------------------------------------------------------
(* Runs of ticks under a configuration made before the first tick *)

CanPrepare == AtStart /\ nOps < RunOps

\* Settings of short breaths: periods of 4, 2.5 and 6 ticks, and of one tick;
\* the last one has the shortest rise time of the control panel
RunSettings ==
  << [respiratoryRate |-> I(1500), ieRatio |-> I(1), riseTime |-> I(20)],
     [respiratoryRate |-> I(2400), ieRatio |-> I(1), riseTime |-> I(20)],
     [respiratoryRate |-> I(1000), ieRatio |-> Q(1, 2)],
     [respiratoryRate |-> I(6000), ieRatio |-> I(1)],
     [respiratoryRate |-> I(1500), ieRatio |-> I(1), riseTime |-> I(0)] >>

RunPresets ==
  << [parameters |-> [severity |-> "mild"], patientType |-> "ARDS"],
     [parameters |-> [severity |-> "severe"], patientType |-> "ARDS"],
     [parameters |-> NoParameters, patientType |-> "COPD"],
     [parameters |-> NoParameters, patientType |-> "normal"] >>

RunUpdateVentilatorSettings == CanPrepare /\ UpdateVentilatorSettingsFrom(RunSettings)
RunSetPatientModel == CanPrepare /\ SetPatientModelCall
RunUpdatePatientParameters ==
  CanPrepare /\ useAdvancedModel /\ UpdatePatientParametersFrom(RunPresets)
RunStep == StepWithin(RunTicks)

LegacyRunUpdatePatientParameters ==
  legacy.steps = 0 /\ nOps < 1 /\ LegacyUpdatePatientParameters
LegacyRunStep == LegacyStepWithin(LegacyRunTicks)

NextRun ==
  \/ RunUpdateVentilatorSettings
  \/ RunSetPatientModel
  \/ RunUpdatePatientParameters
  \/ RunStep
  \/ LegacyInitialize
  \/ LegacyRunUpdatePatientParameters
  \/ LegacyRunStep

---------------------------------------------------------------------------
(* A long run of the basic model under a constant pressure *)

\* pControl 0 holds the target pressure at peep throughout the breath
LongSettings == << [pControl |-> I(0), peep |-> I(15)] >>
LongParameters ==
  << [parameters |-> [residualVolume |-> I(1000)], patientType |-> "null"] >>

LongUpdateVentilatorSettings ==
  AtStart /\ nOps < 2 /\ UpdateVentilatorSettingsFrom(LongSettings)
LongUpdatePatientParameters ==
  AtStart /\ nOps < 2 /\ UpdatePatientParametersFrom(LongParameters)
LongStep == StepWithin(LongTicks)

\* The interval callback fires Burst times with no other call in between (taken
\* up at the times that are multiples of Burst ticks)
LongRun ==
  /\ variant = "class" /\ CanTick(LongTicks - Burst + 1)
  /\ JsMod(currentTime, Mul(I(Burst), timeStep)) = I(0)
  /\ EngineBecomes(SteppedTimes(Engine, Burst))
  /\ lastOp' = [op |-> "steps", arg |-> Burst]
  /\ UNCHANGED <<variant, legacy, nOps>>

NextLong ==
  \/ LongUpdateVentilatorSettings
  \/ LongUpdatePatientParameters
  \/ LongStep
  \/ LongRun

---------------------------------------------------------------------------
(* An AdvancedPatientModel of any unit count, used on its own (the class is
   exported; advancedPatient holds the model, the engine around it stays as
   constructed) *)

MaxUnits == 4
UnitTicks == 2

\* Airway pressures handed to calculateLungState: below every closing pressure,
\* the closing and the opening pressure of the first healthy unit, and above
\* most opening pressures
UnitPressures == {I(0), I(2), I(5), I(30)}

UnitsFrame ==
  UNCHANGED <<variant, ventilator, patient, useAdvancedModel, currentTime,
              simulationData, isRunning, simulationInterval, timers, nextTimerId,
              legacy, breath, nOps, reader>>

\* initializeHealthyLungs()
UnitsInitializeHealthyLungs ==
  /\ advancedPatient' =
       [advancedPatient EXCEPT
          !.alveolarUnits = initializeHealthyLungs(advancedPatient.numberOfUnits),
          !.residualVolume = I(1000)]
  /\ lastOp' = [op |-> "initializeHealthyLungs", arg |-> 0]
  /\ UnitsFrame

\* setupARDSModel(severity)
UnitsSetupARDSModel ==
  /\ \E severity \in DOMAIN severityFactors :
       /\ advancedPatient' =
            PresetUnits(advancedPatient, [severity |-> severity], "ARDS", << >>)
       /\ lastOp' = [op |-> "setupARDSModel", arg |-> severity]
  /\ UnitsFrame

\* setupCOPDModel()
UnitsSetupCOPDModel ==
  /\ \E draws \in RandomDraws :
       advancedPatient' = PresetUnits(advancedPatient, NoParameters, "COPD", draws)
  /\ lastOp' = [op |-> "setupCOPDModel", arg |-> 0]
  /\ UnitsFrame

\* calculateLungState(pressure, time), one time step after the call before
UnitsCalculateLungState ==
  /\ Lt(advancedPatient.lastTime, Mul(I(UnitTicks), timeStep))
  /\ \E pressure \in UnitPressures :
       /\ advancedPatient' =
            AdvancedAfter(advancedPatient, pressure,
                          Add(advancedPatient.lastTime, timeStep))
       /\ lastOp' = [op |-> "calculateLungState", arg |-> pressure]
  /\ UnitsFrame

NextUnits ==
  \/ UnitsInitializeHealthyLungs
  \/ UnitsSetupARDSModel
  \/ UnitsSetupCOPDModel
  \/ UnitsCalculateLungState

---------------------------------------------------------------------------
(* Breaths of the legacy step loop under fixed settings *)

BreathTicks == 8

\* Date.now() - prevTime in ms of a throttled timer, each shorter than the
\* inspiration (1333 ms) and the expiration (2667 ms) of the default settings
BreathDeltas == {1000, 1300}

BreathStep == LegacyStepFrom(BreathTicks, BreathDeltas)

NextBreaths ==
  \/ LegacyInitialize
  \/ BreathStep

---------------------------------------------------------------------------
(* The driver of the legacy app: startSimulation and toggleSimulation *)

MaxIntervals == 3
DriverTicks == 2

\* startSimulation(): the flag is set and setInterval starts a new interval
startSimulation(l) ==
  [l EXCEPT !.simulationRunning = TRUE,
            !.intervals = @ \cup {l.nextInterval},
            !.nextInterval = @ + 1]

\* toggleSimulation(): the flag is inverted; a start runs startSimulation, a
\* stop leaves the interval to its next firing
toggleSimulation(l) ==
  IF ~l.simulationRunning
  THEN startSimulation(l)
  ELSE [l EXCEPT !.simulationRunning = FALSE,
                 !.stopped = @ \cup l.intervals]

\* initializeApp() at DOMContentLoaded: the core is initialized and the
\* simulation loop started
InitializeApp ==
  /\ variant = "legacy" /\ ~legacy.initialized
  /\ \E draws \in LegacyDraws :
       legacy' = startSimulation(initializeSimulation(legacy, draws))
  /\ lastOp' = [op |-> "initializeApp", arg |-> 0]
  /\ UNCHANGED <<variant, nOps>> /\ UNCHANGED classVars

\* A click on the start-stop button
ToggleSimulation ==
  /\ variant = "legacy" /\ legacy.initialized
  /\ legacy.simulationRunning \/ legacy.nextInterval <= MaxIntervals
  /\ legacy' = toggleSimulation(legacy)
  /\ lastOp' = [op |-> "toggleSimulation", arg |-> legacy'.simulationRunning]
  /\ UNCHANGED <<variant, nOps>> /\ UNCHANGED classVars

\* The callback of the interval id fires: it clears its interval when the
\* simulation is not running, and calls SimulationCore.step() otherwise
IntervalFire ==
  /\ variant = "legacy"
  /\ \E id \in legacy.intervals :
       IF ~legacy.simulationRunning
       THEN /\ legacy' = [legacy EXCEPT !.intervals = @ \ {id}]
            /\ lastOp' = [op |-> "intervalCleared", arg |-> id]
       ELSE /\ legacy.steps < DriverTicks
            /\ \E deltaTime \in LegacyDeltas :
                 legacy' = simulationStep(legacy, I(deltaTime))
            /\ lastOp' = [op |-> "intervalStep", arg |-> id]
  /\ UNCHANGED <<variant, nOps>> /\ UNCHANGED classVars

NextDriver ==
  \/ InitializeApp
  \/ ToggleSimulation
  \/ IntervalFire

---------------------------------------------------------------------------
(* A caller that reads the history between ticks and resets *)

ReadTicks == 3

ReadStep == StepWithin(ReadTicks)

NextRead ==
  \/ GetData
  \/ ReadStep
  \/ ResetSimulation
  \/ SetPatientModel

---------------------------------------------------------------------------
(* The specifications *)

Init ==
  /\ variant \in {"class", "legacy"}
  /\ InitClass
  /\ legacy = LegacyLoaded
  /\ lastOp = [op |-> "new", arg |-> 0]
  /\ nOps = 0

Next ==
  \/ Step
  \/ TimerFire
  \/ Start
  \/ Pause
  \/ ResetSimulation
  \/ SetPatientModel
  \/ UpdateVentilatorSettings
  \/ UpdatePatientParameters
  \/ LegacyInitialize
  \/ LegacyUpdateVentilatorSettings
  \/ LegacyUpdatePatientParameters
  \/ LegacyStep

Spec == Init /\ [][Next]_vars

SpecRun == Init /\ [][NextRun]_vars

InitLong == Init /\ variant = "class"
SpecLong == InitLong /\ [][NextLong]_vars

\* new AdvancedPatientModel(n) for a unit count n
InitUnits ==
  /\ variant = "class"
  /\ ventilator = PhaseAfter(NewVentilatorModel, I(0))
  /\ patient = NewBasicPatientModel
  /\ \E n \in 1..MaxUnits : advancedPatient = NewAdvancedPatientModel(n)
  /\ useAdvancedModel = TRUE
  /\ currentTime = I(0)
  /\ simulationData = << InitialSnapshot(NewVentilatorModel, NewBasicPatientModel) >>
  /\ isRunning = FALSE
  /\ simulationInterval = 0
  /\ timers = {}
  /\ nextTimerId = 1
  /\ breath = NewBreath
  /\ reader = NoReader
  /\ legacy = LegacyLoaded
  /\ lastOp = [op |-> "new", arg |-> 0]
  /\ nOps = 0

SpecUnits == InitUnits /\ [][NextUnits]_vars

SpecRead == InitLong /\ [][NextRead]_vars

InitLegacy == Init /\ variant = "legacy"
SpecBreaths == InitLegacy /\ [][NextBreaths]_vars

SpecDriver == InitLegacy /\ [][NextDriver]_vars

---------------------------------------------------------------------------
(* Claims *)

NumAbs(x) == IF Sign(x) < 0 THEN Neg(x) ELSE x

\* The last SteadyTicks ticks all called calculateLungState of the basic model
\* with the pressure P and the parameters the model has now
PressureHeld(P) ==
  /\ Len(simulationData) > SteadyTicks
  /\ \A i \in (Len(simulationData) - SteadyTicks + 1)..Len(simulationData) :
       /\ simulationData[i].patient.pressure = P
       /\ simulationData[i].patient.parameters = patient.parameters

\* A pressure held on the basic model for at least ten time constants
SteadyPressure ==
  /\ variant = "class" /\ ~useAdvancedModel
  /\ Gt(patient.parameters.compliance, I(0))
  /\ Gt(patient.parameters.resistance, I(0))
  /\ Le(Mul(I(10), TimeConstant(patient.parameters)), Mul(I(SteadyTicks), timeStep))
  /\ PressureHeld(patient.lastPressure)

\* C1: when the basic model has been given the same pressure P for a duration much
\* longer than its time constant, currentVolume is within 1 mL of
\* residualVolume + compliance * P
C1_SteadyVolume ==
  SteadyPressure =>
    Le(NumAbs(Sub(patient.currentVolume,
                  Add(patient.parameters.residualVolume,
                      Mul(patient.parameters.compliance, patient.lastPressure)))),
       I(1))

\* C1: the steady state the model does come to: compliance * P, whatever
\* residualVolume is
C1_SteadyVolumeOfCode ==
  SteadyPressure =>
    Le(NumAbs(Sub(patient.currentVolume,
                  Mul(patient.parameters.compliance, patient.lastPressure))),
       I(1))

\* C1: compliance 50, residualVolume 1000 and pressure 15 held for ten time constants
C1_Example ==
  /\ SteadyPressure
  /\ patient.parameters.compliance = I(50)
  /\ patient.parameters.residualVolume = I(1000)
  /\ patient.lastPressure = I(15)

\* The hysteresis rule for one unit over one tick, effP being the unit's
\* effectivePressure in the tick
Hysteresis(before, after, effP) ==
  /\ (~before.isOpen /\ after.isOpen) => Ge(effP, before.openingPressure)
  /\ (before.isOpen /\ ~after.isOpen) => Le(effP, before.closingPressure)
  /\ (Gt(effP, before.closingPressure) /\ Lt(effP, before.openingPressure))
       => after.isOpen = before.isOpen

\* C2: in every tick of AdvancedPatientModel.calculateLungState and of the legacy
\* updateLungUnits a closed unit opens only if its effectivePressure is at least its
\* openingPressure, an open unit closes only if its effectivePressure is at most its
\* closingPressure, and strictly between the two thresholds isOpen does not change
C2_Hysteresis ==
  [][/\ (lastOp'.op \in {"step", "timerStep"} /\ useAdvancedModel) =>
          \A j \in 1..Len(advancedPatient.alveolarUnits) :
             Hysteresis(advancedPatient.alveolarUnits[j],
                        advancedPatient'.alveolarUnits[j],
                        Sub(advancedPatient'.lastPressure,
                            Mul(advancedPatient.alveolarUnits[j].position, I(2))))
     /\ (lastOp'.op = "legacyStep") =>
          \A j \in 1..Len(legacy.lungUnits) :
             Hysteresis(legacy.lungUnits[j], legacy'.lungUnits[j],
                        Sub(legacy'.pressure,
                            Mul(legacy.lungUnits[j].position, I(5))))]_vars

\* The snapshots of advanced-model ticks in the history
AdvancedTicks ==
  {i \in 2..Len(simulationData) : "unitStates" \in DOMAIN simulationData[i].patient}

\* C2: a unit of the advanced model that was open, closed in a tick and opened
\* again in a later tick
C2_Toggled ==
  /\ variant = "class" /\ useAdvancedModel
  /\ \E a, b, c \in AdvancedTicks : \E j \in 1..NumberOfUnits :
       /\ a < b /\ b < c
       /\ simulationData[a].patient.unitStates[j].isOpen
       /\ ~simulationData[b].patient.unitStates[j].isOpen
       /\ simulationData[c].patient.unitStates[j].isOpen

\* C2: a unit of the legacy core that has opened and closed again
C2_LegacyClosedAgain ==
  /\ variant = "legacy" /\ lastOp.op = "legacyStep"
  /\ \E j \in 1..Len(legacy.lungUnits) :
       /\ ~legacy.lungUnits[j].isOpen
       /\ Gt(legacy.lungUnits[j].volume, I(0))

\* respiratoryRate > 0 and ieRatio > 0
ValidSettings(s) == Gt(s.respiratoryRate, I(0)) /\ Gt(s.ieRatio, I(0))

\* A breath cycle has ended under valid settings that were in force from time 0 on
BreathEnded ==
  /\ variant = "class"
  /\ ValidSettings(ventilator.settings)
  /\ breath.clean /\ breath.done

\* Both phases of the breath are longer than a tick
PhasesSampled ==
  /\ Gt(ventilator.inspirationTime, timeStep)
  /\ Gt(ventilator.expirationTime, timeStep)

\* C3: for valid settings held fixed, along the engine's ticks the phase changes
\* from inspiration to expiration exactly once in every period
C3_OncePerPeriod == BreathEnded => breath.doneFlips = 1

\* C3: for valid settings held fixed whose inspirationTime and expirationTime are
\* both longer than timeStep, along the engine's ticks the phase changes from
\* inspiration to expiration exactly once in every breath cycle
\* [k * period, (k + 1) * period)
C3_OncePerSampledPeriod == (BreathEnded /\ PhasesSampled) => breath.doneFlips = 1

\* C3: the third breath under such settings has ended with one change
C3_ThreeBreaths ==
  /\ BreathEnded /\ PhasesSampled
  /\ breath.cycle >= 3 /\ breath.doneFlips = 1

\* C3: a breath under valid settings that ended without a change to expiration
C3_BreathWithoutChange == BreathEnded /\ ~PhasesSampled /\ breath.doneFlips = 0

\* total, inspiration and expiration time agree with the rate and the I:E ratio:
\* total = unit * 60 / rate, inspiration = total * ie / (ie + 1),
\* expiration = total - inspiration, inspiration + expiration = total
TimingConsistent(rate, ie, unit, total, inspiration, expiration) ==
  /\ total = Mul(I(unit), Div(I(60), rate))
  /\ inspiration = Div(Mul(total, ie), Add(ie, I(1)))
  /\ expiration = Sub(total, inspiration)
  /\ NumEq(Add(inspiration, expiration), total)

ClassTimingConsistent ==
  TimingConsistent(ventilator.settings.respiratoryRate, ventilator.settings.ieRatio, 1,
                   ventilator.period, ventilator.inspirationTime,
                   ventilator.expirationTime)

LegacyTimingConsistent ==
  TimingConsistent(legacy.ventilatorSettings.rate, legacy.ventilatorSettings.ieRatio,
                   1000, legacy.totalBreathTime, legacy.inspirationTime,
                   legacy.expirationTime)

\* C4: in every reachable state period = 60 / respiratoryRate,
\* inspirationTime = period * ieRatio / (ieRatio + 1),
\* expirationTime = period - inspirationTime and their sum is period; the same in
\* milliseconds in the legacy core once calculateBreathTiming has run
C4_TimingConsistent ==
  /\ variant = "class" => ClassTimingConsistent
  /\ (variant = "legacy" /\ legacy.initialized) => LegacyTimingConsistent

\* C4: the derived timing is consistent in every reachable state whose settings
\* are valid (respiratoryRate > 0, ieRatio > 0)
C4_TimingOfValidSettings ==
  /\ (variant = "class" /\ ValidSettings(ventilator.settings))
       => ClassTimingConsistent
  /\ (variant = "legacy" /\ legacy.initialized
        /\ Gt(legacy.ventilatorSettings.rate, I(0))
        /\ Gt(legacy.ventilatorSettings.ieRatio, I(0)))
       => LegacyTimingConsistent

\* C4: respiratoryRate 15 and ieRatio 0.5 with period 4 s, inspirationTime 4/3 s
\* and expirationTime 8/3 s, after a tick
C4_Example ==
  /\ variant = "class" /\ lastOp.op = "step"
  /\ ventilator.settings.respiratoryRate = I(15)
  /\ ventilator.settings.ieRatio = Q(1, 2)
  /\ ventilator.period = I(4)
  /\ ventilator.inspirationTime = Q(4, 3)
  /\ ventilator.expirationTime = Q(8, 3)

\* C4: settings with ieRatio -1 in force, the inspirationTime being +Infinity
\* where period * ieRatio / (ieRatio + 1) is -Infinity
C4_InvalidRatioInForce ==
  /\ variant = "class"
  /\ ventilator.settings.ieRatio = I(-1)
  /\ ventilator.inspirationTime = Inf

\* A settings update that carries respiratoryRate <= 0 or ieRatio <= 0
InvalidSettingsUpdate(arg) ==
  \/ "respiratoryRate" \in DOMAIN arg /\ Le(arg.respiratoryRate, I(0))
  \/ "ieRatio" \in DOMAIN arg /\ Le(arg.ieRatio, I(0))

\* C5: a settings update with respiratoryRate <= 0 or ieRatio <= 0 leaves settings,
\* period, inspirationTime and expirationTime as they were before the call
C5_InvalidSettingsRejected ==
  [][(lastOp'.op = "updateVentilatorSettings" /\ InvalidSettingsUpdate(lastOp'.arg))
       => /\ ventilator'.settings = ventilator.settings
          /\ ventilator'.period = ventilator.period
          /\ ventilator'.inspirationTime = ventilator.inspirationTime
          /\ ventilator'.expirationTime = ventilator.expirationTime]_vars

\* C5: no tick runs with a period that is not a positive number
C5_TicksHaveAPeriod ==
  (variant = "class" /\ lastOp.op \in {"step", "timerStep"})
    => (IsFin(ventilator.period) /\ Gt(ventilator.period, I(0)))

\* C5: a tick made after updateVentilatorSettings({respiratoryRate: 0}) was accepted
C5_TickWithoutPeriod ==
  /\ variant = "class" /\ lastOp.op = "step"
  /\ ventilator.settings.respiratoryRate = I(0)
  /\ ventilator.period = Inf

\* Patient parameters that carry compliance <= 0 or resistance <= 0
InvalidParameters(parameters) ==
  \/ "compliance" \in DOMAIN parameters /\ Le(parameters.compliance, I(0))
  \/ "resistance" \in DOMAIN parameters /\ Le(parameters.resistance, I(0))

\* C6: a patient-parameter update of the basic model with compliance <= 0 or
\* resistance <= 0 leaves the model's parameters at their previous values
C6_InvalidParametersRejected ==
  [][(/\ lastOp'.op = "updatePatientParameters"
      /\ ~useAdvancedModel
      /\ InvalidParameters(lastOp'.arg.parameters))
       => patient'.parameters = patient.parameters]_vars

\* C6: calculateLungState of the basic model never computes with a zero or
\* negative time constant
C6_PositiveTimeConstant ==
  (variant = "class" /\ ~useAdvancedModel /\ lastOp.op \in {"step", "timerStep"})
    => Gt(TimeConstant(patient.parameters), I(0))

\* C6: a tick of the basic model made with compliance 0, which leaves
\* currentVolume NaN
C6_TickWithZeroCompliance ==
  /\ variant = "class" /\ ~useAdvancedModel /\ lastOp.op = "step"
  /\ patient.parameters.compliance = I(0)
  /\ IsNaN(patient.currentVolume)

\* resetSimulation() has just returned, called directly or as the last statement
\* of setPatientModel
AfterReset ==
  variant = "class" /\ lastOp.op \in {"resetSimulation", "setPatientModel"}

\* The generator, the history and the active lung model are those of
\* new VentilatorSimulation() put on the same model type
LikeNewEngine ==
  /\ currentTime = I(0)
  /\ simulationData = << InitialSnapshot(NewVentilatorModel, NewBasicPatientModel) >>
  /\ ventilator = PhaseAfter(NewVentilatorModel, I(0))
  /\ IF useAdvancedModel
     THEN advancedPatient = NewAdvancedPatientModel(NumberOfUnits)
     ELSE patient = NewBasicPatientModel

\* C7: after resetSimulation currentTime is 0 and the history holds only the initial
\* snapshot, which together with the generator and the active lung model is what a
\* newly constructed engine using the same model type has
C7_ResetLikeNewEngine == AfterReset => LikeNewEngine

\* C7: after resetSimulation the time, the generator and the active lung model are
\* those of a newly constructed engine, and the history is one snapshot at time 0
C7_ResetOfActiveModel ==
  AfterReset =>
    /\ currentTime = I(0)
    /\ Len(simulationData) = 1 /\ simulationData[1].time = I(0)
    /\ simulationData[1].ventilator = getState(NewVentilatorModel, I(0))
    /\ ventilator = PhaseAfter(NewVentilatorModel, I(0))
    /\ IF useAdvancedModel
       THEN advancedPatient = NewAdvancedPatientModel(NumberOfUnits)
       ELSE patient = NewBasicPatientModel

\* C7: a reset in advanced mode whose initial snapshot shows the volume 120 of the
\* basic model configured earlier with ibw 50, where a new engine shows 168
C7_StaleSnapshot ==
  /\ AfterReset /\ useAdvancedModel
  /\ simulationData[1].patient.volume = I(120)
  /\ NewBasicPatientModel.parameters.residualVolume = I(168)

\* The history is at most 10 / timeStep snapshots long, they are one tick apart
\* and the last one is the current one
HistoryBounded ==
  /\ Len(simulationData) <= HistoryWindow * TimeStepDen
  /\ simulationData[Len(simulationData)].time = currentTime
  /\ \A i \in 1..(Len(simulationData) - 1) :
       simulationData[i + 1].time = Add(simulationData[i].time, timeStep)

\* A step appends its snapshot, and drops exactly the oldest one when the history
\* was full
OldestEvicted ==
  lastOp'.op \in {"step", "timerStep"} =>
    /\ simulationData'[Len(simulationData')].time = currentTime'
    /\ SubSeq(simulationData', 1, Len(simulationData') - 1) =
         IF Len(simulationData) >= HistoryWindow * TimeStepDen
         THEN Tail(simulationData) ELSE simulationData

\* C8: after any sequence of step() calls the history is never longer than
\* 10 / timeStep = 1000 snapshots, and a step that would exceed the bound evicts
\* exactly the oldest snapshot, so that the history is the most recent snapshots
\* in order
C8_HistoryBounded == [](variant = "class" => HistoryBounded) /\ [][OldestEvicted]_vars

\* C8: a full history from which the initial snapshot and the first tick have been
\* evicted
C8_Evicted ==
  /\ variant = "class"
  /\ Len(simulationData) = HistoryWindow * TimeStepDen
  /\ Gt(simulationData[1].time, timeStep)

\* At most one interval timer is scheduled, and isRunning is true exactly when one
\* is: the one simulationInterval names
DriverConsistent ==
  /\ Cardinality(timers) <= 1
  /\ isRunning <=> timers # {}
  /\ isRunning => timers = {simulationInterval}

\* start() while running and pause() while paused change nothing; pause() leaves
\* no timer scheduled; only start() sets the driver running; a timer-driven step
\* happens only while the driver is running
DriverStep ==
  /\ (lastOp'.op = "start" /\ isRunning) => UNCHANGED classVars
  /\ (lastOp'.op = "pause" /\ ~isRunning) => UNCHANGED classVars
  /\ (lastOp'.op = "pause") => (~isRunning' /\ timers' = {})
  /\ (~isRunning /\ isRunning') => lastOp'.op = "start"
  /\ (lastOp'.op = "timerStep") => isRunning

\* C9: for any interleaving of start(), pause(), resetSimulation() and timer firings
\* at most one interval timer is scheduled, isRunning is true exactly when one is
\* scheduled, start() while running and pause() while paused are no-ops, and after
\* pause() no timer-driven step occurs until the next start()
C9_DriverLifecycle ==
  [](variant = "class" => DriverConsistent) /\ [][DriverStep]_vars

\* C9: a timer-driven step of the second interval timer, created by a start()
\* that followed a pause()
C9_StepAfterRestart ==
  /\ variant = "class" /\ lastOp.op = "timerStep"
  /\ isRunning /\ simulationInterval = 2 /\ timers = {2}

\* C10: after setPatientModel(useAdvanced) currentTime is 0, the history holds only
\* the initial snapshot, the periodic driver is stopped, and the lung model that is
\* now active is a newly constructed one
C10_ModelSwitched ==
  (variant = "class" /\ lastOp.op = "setPatientModel") =>
    /\ useAdvancedModel = lastOp.arg
    /\ currentTime = I(0)
    /\ simulationData = << InitialSnapshot(NewVentilatorModel, patient) >>
    /\ ~isRunning /\ timers = {}
    /\ IF useAdvancedModel
       THEN advancedPatient = NewAdvancedPatientModel(NumberOfUnits)
       ELSE patient = NewBasicPatientModel

\* C10: the advanced model selected by the second configuration call, after a timer
\* had been started
C10_SwitchedWithTimer ==
  /\ variant = "class" /\ lastOp.op = "setPatientModel" /\ lastOp.arg = TRUE
  /\ nOps = 2 /\ nextTimerId > 1
  /\ advancedPatient.unitStates = << >>
  /\ advancedPatient.lastTime = I(0)

\* The units a preset left closed and consolidated
Consolidated(units) ==
  {j \in DOMAIN units : ~units[j].isOpen /\ units[j].pathology = "consolidated"}

\* C11: for every unit count, setupARDSModel('severe') leaves strictly more units
\* consolidated and closed than setupARDSModel('mild') does for the same count
C11_SevereClosesMore ==
  (lastOp.op = "setupARDSModel" /\ lastOp.arg = "severe") =>
    Cardinality(Consolidated(advancedPatient.alveolarUnits)) >
    Cardinality(Consolidated(setupARDSModel("mild", advancedPatient.numberOfUnits)))

\* C11 for the unit counts from three on
C11_SevereClosesMoreFromThree ==
  advancedPatient.numberOfUnits >= 3 => C11_SevereClosesMore

\* C11: the severe preset applied to a model of two units closes one unit, as
\* the mild preset does
C11_TwoUnitsAlike ==
  /\ lastOp.op = "setupARDSModel" /\ lastOp.arg = "severe"
  /\ advancedPatient.numberOfUnits = 2
  /\ Cardinality(Consolidated(advancedPatient.alveolarUnits)) = 1
  /\ Cardinality(Consolidated(setupARDSModel("mild", 2))) = 1

\* Every unit's opening pressure is strictly above its closing pressure
OpeningAboveClosing(units) ==
  \A j \in DOMAIN units : Gt(units[j].openingPressure, units[j].closingPressure)

\* C12: every alveolar unit a preset construction produces has openingPressure
\* strictly greater than closingPressure, in the advanced model and in the legacy
\* core, for every random draw
C12_OpeningAboveClosing ==
  /\ variant = "class" => OpeningAboveClosing(advancedPatient.alveolarUnits)
  /\ variant = "legacy" => OpeningAboveClosing(legacy.lungUnits)

\* C12 for the units of the engine's advanced model (ten units)
C12_EngineOpeningAboveClosing ==
  variant = "class" => OpeningAboveClosing(advancedPatient.alveolarUnits)

\* C12: initializeLungUnits has drawn a unit whose closing pressure is above its
\* opening pressure
C12_LegacyThresholdsCrossed ==
  /\ variant = "legacy" /\ legacy.initialized
  /\ \E j \in DOMAIN legacy.lungUnits :
       Lt(legacy.lungUnits[j].openingPressure, legacy.lungUnits[j].closingPressure)

\* The unit sets the preset named by the arguments u of updatePatientParameters
\* can build for n units
UnitsOfPreset(u, n) ==
  IF u.patientType = "ARDS"
  THEN {setupARDSModel(IF "severity" \in DOMAIN u.parameters
                       THEN u.parameters.severity ELSE "moderate", n)}
  ELSE IF u.patientType = "COPD"
  THEN {setupCOPDModel(draws, n) : draws \in RandomDraws}
  ELSE {initializeHealthyLungs(n)}

PresetApplied ==
  /\ variant = "class" /\ useAdvancedModel
  /\ lastOp.op = "updatePatientParameters"
  /\ lastOp.arg.patientType \in {"normal", "ARDS", "COPD"}

\* C13: while the advanced model is active, a preset applied through
\* updatePatientParameters replaces the whole unit set with the units of that
\* preset; the normal preset after ARDS or COPD yields the healthy unit set
C13_PresetReplacesUnits ==
  PresetApplied =>
    advancedPatient.alveolarUnits \in
      UnitsOfPreset(lastOp.arg, advancedPatient.numberOfUnits)

\* C13 for the ARDS and COPD presets
C13_DiseasePresetReplacesUnits ==
  (PresetApplied /\ lastOp.arg.patientType # "normal") => C13_PresetReplacesUnits

\* C13: the normal preset has been applied after an ARDS preset and the model
\* still holds consolidated units
C13_NormalKeepsARDSUnits ==
  /\ PresetApplied /\ lastOp.arg.patientType = "normal"
  /\ Consolidated(advancedPatient.alveolarUnits) # {}

\* The snapshot the last tick recorded
LatestSnapshot == simulationData[Len(simulationData)]

\* The last tick was taken under valid settings at the start of an inspiration
\* (cycleTime = 0)
AtStartOfInspiration ==
  /\ variant = "class" /\ lastOp.op = "step"
  /\ ValidSettings(LatestSnapshot.ventilator.settings)
  /\ NumEq(JsMod(currentTime, Period(LatestSnapshot.ventilator.settings)), I(0))

\* C14: for all valid settings, every rise time of the control panel (0 to
\* 10000 ms) included, the target pressure at cycleTime = 0 equals peep
C14_PeepAtStartOfInspiration ==
  AtStartOfInspiration =>
    NumEq(LatestSnapshot.ventilator.targetPressure,
          LatestSnapshot.ventilator.settings.peep)

\* C14 for the rise times above 0
C14_PeepAtStartOfRise ==
  (AtStartOfInspiration /\ Gt(LatestSnapshot.ventilator.settings.riseTime, I(0)))
    => C14_PeepAtStartOfInspiration

\* C14: a tick at the start of an inspiration under rise time 0 has a target
\* pressure that is not a number
C14_NoPressureAtRiseTimeZero ==
  /\ AtStartOfInspiration
  /\ NumEq(LatestSnapshot.ventilator.settings.riseTime, I(0))
  /\ Gt(currentTime, I(0))
  /\ IsNaN(LatestSnapshot.ventilator.targetPressure)

\* The engine before its first tick: the generator and the initial snapshot report
\* Expiration (the legacy core: breathPhase before its first step)
IdleInExpiration ==
  /\ (variant = "class" /\ AtStart) =>
       /\ ventilator.currentPhase = "expiration"
       /\ simulationData[1].ventilator.phase = "expiration"
  /\ (variant = "legacy" /\ legacy.steps = 0) => legacy.breathPhase = "expiration"

\* The initial snapshot is taken at time 0 with the pressure at PEEP
IdleAtPeep ==
  (variant = "class" /\ AtStart) =>
    /\ simulationData[1].time = I(0)
    /\ NumEq(simulationData[1].ventilator.targetPressure,
             simulationData[1].ventilator.settings.peep)
    /\ NumEq(simulationData[1].patient.pressure,
             simulationData[1].ventilator.settings.peep)

\* C15: before the first tick of a newly constructed or freshly reset engine the
\* generator's phase is Expiration, and the initial snapshot at time 0 reports
\* phase Expiration with the pressure at PEEP
C15_InitialExpiration == IdleInExpiration /\ IdleAtPeep

\* C15, the pressure of the initial snapshot alone
C15_InitialPressureAtPeep == IdleAtPeep

\* C15: a freshly reset engine whose generator and initial snapshot report
\* Inspiration
C15_InspirationAfterReset ==
  /\ variant = "class" /\ AtStart /\ lastOp.op = "resetSimulation"
  /\ ventilator.currentPhase = "inspiration"
  /\ simulationData[1].ventilator.phase = "inspiration"

\* What a generator that has seen no call yet returns for the time of the last
\* tick under the settings now in force
FreshState == getState(updateSettings(NewVentilatorModel, ventilator.settings),
                       currentTime)

Ticked == variant = "class" /\ lastOp.op = "step"

\* C16: getState(time) is a pure function of time and the current settings: the
\* engine's generator, whatever calls it has seen, returns the pressure, phase and
\* phase-elapsed time that a generator with equal settings returns for that time
C16_GetStatePure ==
  Ticked =>
    /\ LatestSnapshot.ventilator.targetPressure = FreshState.targetPressure
    /\ LatestSnapshot.ventilator.phase = FreshState.phase
    /\ LatestSnapshot.ventilator.phaseTime = FreshState.phaseTime

\* C16 for the pressure and the phase
C16_PressureAndPhasePure ==
  Ticked =>
    /\ LatestSnapshot.ventilator.targetPressure = FreshState.targetPressure
    /\ LatestSnapshot.ventilator.phase = FreshState.phase

\* C16: two generators with equal settings report different phase-elapsed times
\* for the same time
C16_PhaseTimeOfHistory ==
  /\ Ticked
  /\ LatestSnapshot.ventilator.settings = FreshState.settings
  /\ IsFin(LatestSnapshot.ventilator.phaseTime) /\ IsFin(FreshState.phaseTime)
  /\ ~NumEq(LatestSnapshot.ventilator.phaseTime, FreshState.phaseTime)

\* A tick of the basic model: the flow it reports, times the time it covers,
\* equals the change of currentVolume it made
FlowIntegrates ==
  (variant = "class" /\ ~useAdvancedModel /\ lastOp'.op \in {"step", "timerStep"}
     /\ Gt(patient'.lastTime, patient.lastTime)) =>
    /\ simulationData'[Len(simulationData')].patient.flow = patient'.currentFlow
    /\ NumEq(Mul(patient'.currentFlow, Sub(patient'.lastTime, patient.lastTime)),
             Sub(patient'.currentVolume, patient.currentVolume))

\* C17: in the single-compartment model, for every tick with deltaTime > 0 the
\* reported flow times deltaTime equals the change of currentVolume of that tick
C17_FlowIntegrates == [][FlowIntegrates]_vars

\* C17 for the ticks that leave a finite volume
C17_FiniteFlowIntegrates ==
  [][IsFin(patient'.currentVolume) => FlowIntegrates]_vars

\* C17: a tick of the basic model has moved the volume and reported a flow
C17_VolumeMoved ==
  /\ variant = "class" /\ ~useAdvancedModel /\ lastOp.op \in {"step", "timerStep"}
  /\ IsFin(patient.currentFlow) /\ ~NumEq(patient.currentFlow, I(0))

\* C17: a tick of the basic model under compliance 0 has reported a flow that is
\* not a number
C17_FlowNotANumber ==
  /\ variant = "class" /\ ~useAdvancedModel /\ lastOp.op \in {"step", "timerStep"}
  /\ NumEq(patient.parameters.compliance, I(0))
  /\ IsNaN(patient.currentFlow) /\ IsNaN(patient.currentVolume)

\* The predicted values of the male reference equations
PredictedFor(ibw) ==
  [predictedTLC |-> Mul(Q(799, 100), ibw),
   predictedVC |-> Mul(Q(45, 10), ibw),
   predictedRV |-> Mul(Q(131, 100), ibw),
   predictedFRC |-> Mul(Q(24, 10), ibw)]

\* The last call set the ideal body weight of the basic model: its construction
\* or an updateParameters that contains ibw
IbwSet ==
  /\ variant = "class"
  /\ \/ lastOp.op = "new"
     \/ lastOp.op \in {"resetSimulation", "setPatientModel"} /\ ~useAdvancedModel
     \/ /\ lastOp.op = "updatePatientParameters" /\ ~useAdvancedModel
        /\ "ibw" \in DOMAIN lastOp.arg.parameters

PredictedValuesSet ==
  IbwSet =>
    /\ patient.calculatedParameters = PredictedFor(patient.parameters.ibw)
    /\ patient.parameters.residualVolume = patient.calculatedParameters.predictedFRC
    /\ patient.currentVolume = patient.parameters.residualVolume

\* An updateParameters call of the basic model that does not contain ibw
UpdateWithoutIbw ==
  /\ variant = "class" /\ ~useAdvancedModel
  /\ lastOp'.op = "updatePatientParameters"
  /\ "ibw" \notin DOMAIN lastOp'.arg.parameters

PredictedValuesKept ==
  UpdateWithoutIbw =>
    /\ patient'.calculatedParameters = patient.calculatedParameters
    /\ patient'.currentVolume = patient.currentVolume

\* C18: setting the ideal body weight makes the predicted TLC, VC, RV and FRC
\* 7.99, 4.5, 1.31 and 2.4 times IBW, residualVolume the predicted FRC and
\* currentVolume the residualVolume; an updateParameters call without ibw leaves
\* the predicted values, residualVolume and currentVolume unchanged
C18_PredictedValues ==
  /\ []PredictedValuesSet
  /\ [][PredictedValuesKept /\
        (UpdateWithoutIbw =>
           patient'.parameters.residualVolume = patient.parameters.residualVolume)]_vars

\* C18, with residualVolume unchanged by a call without ibw unless the call names
\* residualVolume itself, which then becomes the value named
C18_PredictedValuesUnlessNamed ==
  /\ []PredictedValuesSet
  /\ [][PredictedValuesKept /\
        (UpdateWithoutIbw =>
           patient'.parameters.residualVolume =
             IF "residualVolume" \in DOMAIN lastOp'.arg.parameters
             THEN lastOp'.arg.parameters.residualVolume
             ELSE patient.parameters.residualVolume)]_vars

\* C18: updateParameters with ibw 50 after a tick had moved the volume: the
\* predicted FRC, residualVolume and currentVolume are 120
C18_IbwUpdatedAfterTick ==
  /\ IbwSet /\ lastOp.op = "updatePatientParameters"
  /\ patient.parameters.ibw = I(50)
  /\ Gt(patient.lastTime, I(0))
  /\ patient.calculatedParameters.predictedFRC = I(120)
  /\ patient.currentVolume = I(120)

\* C18: updateParameters({residualVolume: 1200}) has changed residualVolume
C18_ResidualVolumeNamed ==
  /\ variant = "class" /\ ~useAdvancedModel
  /\ lastOp.op = "updatePatientParameters"
  /\ "ibw" \notin DOMAIN lastOp.arg.parameters
  /\ patient.parameters.residualVolume = I(1200)
  /\ patient.calculatedParameters.predictedFRC = I(168)

\* The history ends with the snapshot of currentTime, and its snapshots follow
\* each other at the distance of one time step
HistoryInOrder ==
  variant = "class" =>
    /\ LatestSnapshot.time = currentTime
    /\ \A i \in 1..(Len(simulationData) - 1) :
         /\ Lt(simulationData[i].time, simulationData[i + 1].time)
         /\ simulationData[i + 1].time = Add(simulationData[i].time, timeStep)

\* A step() advances currentTime by timeStep and returns the last element of the
\* history, whose time is the new currentTime
StepReturnsLatest ==
  (variant = "class" /\ lastOp'.op \in {"step", "timerStep"}) =>
    /\ currentTime' = Add(currentTime, timeStep)
    /\ StepReturns(Engine, Add(currentTime, timeStep)) =
         simulationData'[Len(simulationData')]
    /\ StepReturns(Engine, Add(currentTime, timeStep)).time = currentTime'

\* C19: every step() advances currentTime by exactly timeStep and returns the
\* latest snapshot (the last element of the history, its time equal to
\* currentTime); the snapshots of the history have strictly increasing times,
\* consecutive ones differing by timeStep
C19_StepReturnsLatest == []HistoryInOrder /\ [][StepReturnsLatest]_vars

\* C19: a history of the initial snapshot and six ticks
C19_SixTicks ==
  /\ variant = "class" /\ lastOp.op = "step"
  /\ Len(simulationData) = 7
  /\ simulationData[1].time = I(0)
  /\ currentTime = Q(6, 100)

\* pause() and start() leave currentTime, the history, the generator and both
\* lung models as they are
DriverKeepsState ==
  (variant = "class" /\ lastOp'.op \in {"pause", "start"}) =>
    UNCHANGED <<currentTime, simulationData, ventilator, patient, advancedPatient,
                useAdvancedModel>>

\* A tick of the driver continues from the state the engine is in, whatever
\* pause() and start() calls came before it
TickContinues ==
  (variant = "class" /\ lastOp'.op = "timerStep") =>
    /\ currentTime' = Stepped(Engine).currentTime
    /\ simulationData' = Stepped(Engine).simulationData
    /\ ventilator' = Stepped(Engine).ventilator
    /\ patient' = Stepped(Engine).patient
    /\ advancedPatient' = Stepped(Engine).advancedPatient

\* C20: pause() stops ticking without losing state: currentTime, the history, the
\* generator's settings and phase and the lung model's volumes and recruitment
\* states are the same after pause() as before, and a later start() continues from
\* exactly that state
C20_PauseKeepsState == [][DriverKeepsState /\ TickContinues]_vars

\* C20: the engine started a second time, which only a pause() in between allows
\* when no other call was made, with a tick in its history
C20_RestartedAfterTick ==
  /\ variant = "class" /\ lastOp.op = "start" /\ nOps = 0
  /\ isRunning /\ simulationInterval = 2 /\ timers = {2}
  /\ Gt(currentTime, I(0)) /\ Len(simulationData) = 2

\* C21: the history returned by getData() is a read-only view: the sequence a
\* reader obtained from one getData() call is not changed by later step() calls
C21_HistoryReadOnly == reader.held => ReaderView = reader.read

\* C21: a step() after getData() has appended a snapshot to the array the reader
\* holds
C21_ReaderSeesNewSnapshot ==
  /\ reader.held /\ reader.live /\ lastOp.op = "step"
  /\ Len(ReaderView) = Len(reader.read) + 1

\* The snapshot carries the states (id, isOpen, volume) of n units
CarriesUnitStates(snapshot, n) ==
  /\ "unitStates" \in DOMAIN snapshot.patient
  /\ Len(snapshot.patient.unitStates) = n
  /\ \A j \in 1..n :
       /\ {"id", "isOpen", "volume"} \subseteq DOMAIN snapshot.patient.unitStates[j]
       /\ snapshot.patient.unitStates[j].id = j - 1

\* C22: every snapshot of the history recorded while the multi-compartment model
\* is active, the initial snapshot included, carries the per-unit states of all
\* units
C22_SnapshotsCarryUnits ==
  (variant = "class" /\ useAdvancedModel) =>
    \A i \in 1..Len(simulationData) :
      CarriesUnitStates(simulationData[i], advancedPatient.numberOfUnits)

\* C22 for the snapshots that ticks record
C22_TickSnapshotsCarryUnits ==
  (variant = "class" /\ useAdvancedModel) =>
    \A i \in 1..Len(simulationData) :
      Gt(simulationData[i].time, I(0)) =>
        CarriesUnitStates(simulationData[i], advancedPatient.numberOfUnits)

\* C22: the advanced model has been selected and the initial snapshot holds the
\* basic model's fields without unit states
C22_InitialSnapshotWithoutUnits ==
  /\ variant = "class" /\ useAdvancedModel /\ lastOp.op = "setPatientModel"
  /\ "unitStates" \notin DOMAIN simulationData[1].patient
  /\ "parameters" \in DOMAIN simulationData[1].patient

\* The transition is an update of ventilator settings, or of patient parameters
\* that names no lung-model preset
UpdateKeepingPreset ==
  \/ lastOp'.op \in {"updateVentilatorSettings", "legacyUpdateVentilatorSettings"}
  \/ lastOp'.op = "updatePatientParameters" /\ lastOp'.arg.patientType = "null"
  \/ lastOp'.op = "legacyUpdatePatientParameters" /\ "lungModel" \notin DOMAIN lastOp'.arg

\* C23: an update of ventilator settings, or of patient compliance or resistance
\* without a preset change, leaves every alveolar unit (isOpen, volume,
\* thresholds, compliance) unchanged, in the class engine and in the legacy core
C23_UpdatesKeepUnits ==
  [][UpdateKeepingPreset =>
       /\ advancedPatient'.alveolarUnits = advancedPatient.alveolarUnits
       /\ legacy'.lungUnits = legacy.lungUnits]_vars

\* C23 for the class engine alone
C23_EngineUpdatesKeepUnits ==
  [][(UpdateKeepingPreset /\ variant = "class") =>
       advancedPatient'.alveolarUnits = advancedPatient.alveolarUnits]_vars

\* C23 for updateVentilatorSettings of the legacy core
C23_LegacySettingsKeepUnits ==
  [][lastOp'.op = "legacyUpdateVentilatorSettings" =>
       legacy'.lungUnits = legacy.lungUnits]_vars

\* C23: the legacy core has ticked, and an update of the compliance alone has
\* rebuilt the units: every unit is closed and empty
C23_LegacyUnitsRebuilt ==
  /\ variant = "legacy" /\ legacy.steps >= 1
  /\ lastOp.op = "legacyUpdatePatientParameters"
  /\ DOMAIN lastOp.arg = {"compliance"}
  /\ \A j \in 1..Len(legacy.lungUnits) :
       ~legacy.lungUnits[j].isOpen /\ legacy.lungUnits[j].volume = I(0)

\* C23: the class engine in advanced mode has ticked and then taken a compliance
\* update
C23_EngineUpdatedAfterTick ==
  /\ variant = "class" /\ useAdvancedModel /\ Gt(currentTime, I(0))
  /\ lastOp.op = "updatePatientParameters" /\ lastOp.arg.patientType = "null"

\* cycleTime and start of the breath of the i-th snapshot of the history
SnapshotCycleTime(i) == CycleTime(ventilator, simulationData[i].ventilator.time)
SnapshotBreathStart(i) == Sub(simulationData[i].ventilator.time, SnapshotCycleTime(i))

\* The ramp of the rule: peep + pControl * min(1, cycleTime / (riseTime / 1000))
RampOfRule(settings, cycleTime) ==
  Add(settings.peep,
      Mul(settings.pControl,
          MathMin(I(1), Div(cycleTime, Div(settings.riseTime, I(1000))))))

\* Phase and pressure of the snapshot s follow the rule at the cycle time
FollowsRule(s, cycleTime) ==
  IF Lt(cycleTime, ventilator.inspirationTime)
  THEN s.phase = "inspiration" /\ s.targetPressure = RampOfRule(s.settings, cycleTime)
  ELSE s.phase = "expiration" /\ NumEq(s.targetPressure, s.settings.peep)

\* The pressure of the snapshot s is within [peep, peep + pControl]
WithinRange(s) ==
  Ge(s.settings.pControl, I(0)) =>
    /\ Ge(s.targetPressure, s.settings.peep)
    /\ Le(s.targetPressure, Add(s.settings.peep, s.settings.pControl))

\* Snapshots i and i + 1 are of the inspiration of one breath
SameInspiration(i) ==
  /\ simulationData[i].ventilator.phase = "inspiration"
  /\ simulationData[i + 1].ventilator.phase = "inspiration"
  /\ SnapshotBreathStart(i) = SnapshotBreathStart(i + 1)

NonDecreasing(i) ==
  (SameInspiration(i) /\ Ge(simulationData[i].ventilator.settings.pControl, I(0))) =>
    Ge(simulationData[i + 1].ventilator.targetPressure,
       simulationData[i].ventilator.targetPressure)

\* The snapshots of ticks whose rise time satisfies ok follow the rule, stay in
\* range and do not decrease within an inspiration
TargetPressureRule(ok(_)) ==
  variant = "class" =>
    /\ \A i \in 2..Len(simulationData) :
         ok(simulationData[i].ventilator.settings.riseTime) =>
           /\ FollowsRule(simulationData[i].ventilator, SnapshotCycleTime(i))
           /\ WithinRange(simulationData[i].ventilator)
    /\ \A i \in 2..(Len(simulationData) - 1) :
         ok(simulationData[i].ventilator.settings.riseTime) => NonDecreasing(i)

AnyRiseTime(r) == TRUE
PositiveRiseTime(r) == Gt(r, I(0))

\* C24: with cycleTime = time mod period, the pressure of a tick is
\* peep + pControl * min(1, cycleTime / (riseTime / 1000)) in the phase
\* Inspiration when cycleTime < inspirationTime, and exactly peep in the phase
\* Expiration otherwise; for pControl >= 0 it is within [peep, peep + pControl]
\* and does not decrease during an inspiration
C24_TargetPressure == TargetPressureRule(AnyRiseTime)

\* C24 under a rise time above 0
C24_TargetPressureOfRise == TargetPressureRule(PositiveRiseTime)

\* C24: a tick at the start of an inspiration under rise time 0 has recorded a
\* pressure that is not within [peep, peep + pControl]
C24_PressureOutOfRange ==
  /\ variant = "class"
  /\ \E i \in 2..Len(simulationData) :
       /\ simulationData[i].ventilator.phase = "inspiration"
       /\ NumEq(simulationData[i].ventilator.settings.riseTime, I(0))
       /\ ~WithinRange(simulationData[i].ventilator)

\* C24: a tick has recorded a pressure on the ramp, strictly between peep and
\* peep + pControl, and the next tick of the same inspiration a higher one
C24_OnTheRamp ==
  /\ variant = "class"
  /\ \E i \in 2..(Len(simulationData) - 1) :
       /\ SameInspiration(i)
       /\ Gt(simulationData[i].ventilator.targetPressure,
             simulationData[i].ventilator.settings.peep)
       /\ Gt(simulationData[i + 1].ventilator.targetPressure,
             simulationData[i].ventilator.targetPressure)

\* isOpen of a unit after a gate that acts at the thresholds themselves
GateAtThresholds(unit, effectivePressure, opening, closing) ==
  IF ~unit.isOpen /\ Ge(effectivePressure, opening) THEN TRUE
  ELSE IF unit.isOpen /\ Le(effectivePressure, closing) THEN FALSE
  ELSE unit.isOpen

\* The unit after a tick whose gate acts at the thresholds, before the volume
\* update
UnitGatedAtThresholds(unit, effectivePressure, deltaTime) ==
  UnitGated(unit,
            GateAtThresholds(unit, effectivePressure,
                             unit.openingPressure, unit.closingPressure),
            effectivePressure, deltaTime)

\* The tick of the advanced model gates every unit at its thresholds
EngineGatesAtThresholds ==
  lastOp'.op = "calculateLungState" =>
    \A j \in 1..Len(advancedPatient.alveolarUnits) :
      advancedPatient'.alveolarUnits[j] =
        UnitGatedAtThresholds(advancedPatient.alveolarUnits[j],
                              EffectivePressure(advancedPatient.alveolarUnits[j],
                                                lastOp'.arg),
                              Sub(advancedPatient'.lastTime, advancedPatient.lastTime))

\* The tick of the legacy core gates every unit at its thresholds
LegacyGatesAtThresholds ==
  lastOp'.op = "legacyStep" =>
    \A j \in 1..Len(legacy.lungUnits) :
      /\ legacy'.lungUnits[j].isOpen =
           GateAtThresholds(legacy.lungUnits[j],
                            LegacyEffectivePressure(legacy.lungUnits[j], legacy'.pressure),
                            legacy.lungUnits[j].openingPressure,
                            legacy.lungUnits[j].closingPressure)
      /\ legacy'.lungUnits[j].volume =
           LegacyUnitVolume(legacy, legacy.lungUnits[j], legacy'.lungUnits[j].isOpen,
                            LegacyEffectivePressure(legacy.lungUnits[j], legacy'.pressure),
                            I(lastOp'.arg))

\* C25: in a tick, a closed unit whose effectivePressure (airway pressure minus
\* position times the gravity constant) is greater than or equal to its
\* openingPressure is open for that tick's volume update, and an open unit whose
\* effectivePressure is less than or equal to its closingPressure is closed for it
C25_GateAtThresholds == [][EngineGatesAtThresholds]_vars

\* C25 for the legacy core
C25_LegacyGateAtThresholds == [][LegacyGatesAtThresholds]_vars

\* C25: a tick has left a unit open whose effectivePressure was its
\* closingPressure
C25_OpenAtClosingPressure ==
  /\ lastOp.op = "calculateLungState"
  /\ \E j \in 1..Len(advancedPatient.alveolarUnits) :
       /\ advancedPatient.alveolarUnits[j].isOpen
       /\ NumEq(EffectivePressure(advancedPatient.alveolarUnits[j], lastOp.arg),
                advancedPatient.alveolarUnits[j].closingPressure)

\* C25: a tick has left a unit closed whose effectivePressure was its
\* openingPressure
C25_ClosedAtOpeningPressure ==
  /\ lastOp.op = "calculateLungState"
  /\ \E j \in 1..Len(advancedPatient.alveolarUnits) :
       /\ ~advancedPatient.alveolarUnits[j].isOpen
       /\ NumEq(EffectivePressure(advancedPatient.alveolarUnits[j], lastOp.arg),
                advancedPatient.alveolarUnits[j].openingPressure)

\* The volume a closed unit has after a tick, by the rule: 0.9 times its volume
\* if it is air-trapped, else emptied toward 0 with the fixed time constant
ClosedVolumeByRule(unit, deltaTime) ==
  IF unit.pathology = "air-trapped"
  THEN Mul(unit.volume, Q(9, 10))
  ELSE Add(unit.volume,
           Vol(Mul(Sub(I(0), unit.volume), Response(deltaTime, UnitTimeConstant))))

\* A tick leaves the units it has closed, of the pathologies given, with the
\* volume of the rule
ClosedUnitsFollowRule(pathologies) ==
  lastOp'.op = "calculateLungState" =>
    \A j \in 1..Len(advancedPatient.alveolarUnits) :
      (/\ ~advancedPatient'.alveolarUnits[j].isOpen
       /\ advancedPatient.alveolarUnits[j].pathology \in pathologies) =>
        NumEq(advancedPatient'.alveolarUnits[j].volume,
              ClosedVolumeByRule(advancedPatient.alveolarUnits[j],
                                 Sub(advancedPatient'.lastTime, advancedPatient.lastTime)))

\* The volume of a unit that a tick leaves closed has not increased and is not
\* negative
ClosedUnitsShrink ==
  lastOp'.op = "calculateLungState" =>
    \A j \in 1..Len(advancedPatient.alveolarUnits) :
      ~advancedPatient'.alveolarUnits[j].isOpen =>
        /\ Le(advancedPatient'.alveolarUnits[j].volume,
              advancedPatient.alveolarUnits[j].volume)
        /\ Ge(advancedPatient'.alveolarUnits[j].volume, I(0))

\* C26: after a tick in which it is closed, an air-trapped unit has 0.9 times
\* its volume before the tick and a closed unit of any other pathology has
\* emptied toward 0 with the fixed time constant; in both cases the volume has
\* not increased and is not negative
C26_ClosedUnits ==
  [][/\ ClosedUnitsFollowRule({"normal", "consolidated", "air-trapped"})
     /\ ClosedUnitsShrink]_vars

\* C26 without the air-trapped units' factor
C26_ClosedUnitsDecay ==
  [][/\ ClosedUnitsFollowRule({"normal", "consolidated"})
     /\ ClosedUnitsShrink]_vars

\* The change of volume of the j-th unit in the last tick, from its reported flow
LastVolumeChange(j) == Mul(advancedPatient.unitStates[j].flow, timeStep)

\* C26: a tick has closed an inflated air-trapped unit, and the unit has lost
\* less than a fiftieth of the volume it had
C26_AirTrappedKeepsMore ==
  /\ lastOp.op = "calculateLungState"
  /\ \E j \in 1..Len(advancedPatient.alveolarUnits) :
       /\ ~advancedPatient.alveolarUnits[j].isOpen
       /\ advancedPatient.alveolarUnits[j].pathology = "air-trapped"
       /\ Gt(advancedPatient.alveolarUnits[j].volume, I(0))
       /\ Lt(LastVolumeChange(j), I(0))
       /\ Gt(Mul(LastVolumeChange(j), I(5)),
             Mul(Sub(advancedPatient.alveolarUnits[j].volume, LastVolumeChange(j)),
                 Q(-1, 10)))

\* C26: a tick has closed an inflated unit that is not air-trapped
C26_ClosedUnitEmptying ==
  /\ lastOp.op = "calculateLungState"
  /\ \E j \in 1..Len(advancedPatient.alveolarUnits) :
       /\ ~advancedPatient.alveolarUnits[j].isOpen
       /\ advancedPatient.alveolarUnits[j].pathology = "normal"
       /\ Gt(advancedPatient.alveolarUnits[j].volume, I(0))
       /\ Lt(LastVolumeChange(j), I(0))

\* The snapshot of a tick of the multi-compartment model reports no negative unit
\* volume, and a total volume of residualVolume plus the unit volumes that is not
\* below the baseline of 1000 mL
VolumesAboveBaseline(snapshot) ==
  (/\ Ge(snapshot.ventilator.settings.peep, I(0))
   /\ Ge(snapshot.ventilator.settings.pControl, I(0))) =>
    /\ \A j \in 1..Len(snapshot.patient.unitStates) :
         Ge(snapshot.patient.unitStates[j].volume, I(0))
    /\ NumEq(snapshot.patient.volume,
             SumField(snapshot.patient.unitStates, "volume",
                      advancedPatient.residualVolume))
    /\ Ge(snapshot.patient.volume, I(1000))

\* Every pressure of the history is a finite number
FinitePressures ==
  \A i \in 1..Len(simulationData) : IsFin(simulationData[i].ventilator.targetPressure)

TickVolumesAboveBaseline ==
  (variant = "class" /\ useAdvancedModel) =>
    \A i \in 2..Len(simulationData) : VolumesAboveBaseline(simulationData[i])

\* C30: in the multi-compartment model of the class engine, for peep >= 0 and
\* pControl >= 0 and any sequence of presets and ticks, every unit's volume is
\* >= 0, and the total volume of every tick is residualVolume plus the sum of
\* the unit volumes and not below 1000 mL
C30_VolumesAboveBaseline == TickVolumesAboveBaseline

\* C30 for the histories whose pressures are all finite
C30_VolumesUnderFinitePressure == FinitePressures => TickVolumesAboveBaseline

\* C30: a tick of the multi-compartment model under a pressure that is not a
\* number has reported a total volume that is not a number
C30_VolumeNotANumber ==
  /\ variant = "class" /\ useAdvancedModel
  /\ \E i \in 2..Len(simulationData) :
       /\ IsNaN(simulationData[i].ventilator.targetPressure)
       /\ Ge(simulationData[i].ventilator.settings.peep, I(0))
       /\ Ge(simulationData[i].ventilator.settings.pControl, I(0))
       /\ IsNaN(simulationData[i].patient.volume)

\* C30: ticks of the multi-compartment model have inflated the lungs above the
\* baseline under a preset with closed units
C30_InflatedWithClosedUnits ==
  /\ variant = "class" /\ useAdvancedModel /\ FinitePressures
  /\ Len(simulationData) >= 3
  /\ Gt(simulationData[Len(simulationData)].patient.volume, I(1000))
  /\ simulationData[Len(simulationData)].patient.recruitedUnits < NumberOfUnits

\* C30 for a model of two units or more under presets and ticks in any order,
\* the airway pressures being finite and not negative
C30_UnitVolumesInAnyOrder ==
  advancedPatient.numberOfUnits >= 2 =>
    /\ \A j \in 1..Len(advancedPatient.alveolarUnits) :
         Ge(advancedPatient.alveolarUnits[j].volume, I(0))
    /\ lastOp.op = "calculateLungState" =>
         /\ NumEq(advancedPatient.currentVolume,
                  SumField(advancedPatient.alveolarUnits, "volume",
                           advancedPatient.residualVolume))
         /\ Ge(advancedPatient.currentVolume, I(1000))

\* The derived timing of the generator is that of its settings
TimingOfSettings(v) ==
  /\ v.period = Period(v.settings)
  /\ v.inspirationTime = InspirationTime(v.settings)
  /\ v.expirationTime = ExpirationTime(v.settings)

\* The transition is a call of updateVentilatorSettings that changes only the
\* generator's settings and derived timing
SettingsUpdateFrame ==
  lastOp'.op = "updateVentilatorSettings" =>
    /\ UNCHANGED <<currentTime, simulationData, isRunning, timers, patient,
                   advancedPatient, useAdvancedModel>>
    /\ ventilator'.currentPhase = ventilator.currentPhase
    /\ ventilator'.phaseStartTime = ventilator.phaseStartTime
    /\ ventilator'.currentTime = ventilator.currentTime
    /\ ventilator'.settings = Merge(ventilator.settings, lastOp'.arg)
    /\ TimingOfSettings(ventilator')

\* The transition is a tick that starts from settings and derived timing that
\* belong together
TickSeesWholeUpdate ==
  lastOp'.op \in {"step", "timerStep", "steps"} => TimingOfSettings(ventilator)

\* C29: updateVentilatorSettings changes only the generator's settings and
\* derived timing (currentTime, the history, isRunning, the generator's recorded
\* phase and the lung models are unchanged by the call), and a step never
\* observes a mix of old derived timing and new settings
C29_SettingsUpdate == [][SettingsUpdateFrame /\ TickSeesWholeUpdate]_vars

\* C29: the settings have been updated after a tick, and the period is that of
\* the new respiratory rate
C29_UpdatedAfterTick ==
  /\ variant = "class"
  /\ lastOp.op = "updateVentilatorSettings"
  /\ "respiratoryRate" \in DOMAIN lastOp.arg
  /\ Gt(currentTime, I(0)) /\ Len(simulationData) = 2
  /\ ventilator.settings.respiratoryRate = I(3000)
  /\ ventilator.period = Q(1, 50)

\* C29: a tick has been taken under updated settings
C29_TickAfterUpdate ==
  /\ variant = "class" /\ lastOp.op = "step" /\ nOps >= 1
  /\ ventilator.settings.respiratoryRate = I(3000)
  /\ NumEq(simulationData[Len(simulationData)].ventilator.settings.respiratoryRate,
           I(3000))

\* The longest tick delta of the breaths
LongestDelta == I(CHOOSE d \in BreathDeltas : \A e \in BreathDeltas : e <= d)

\* The ideal time of the n-th switch from expiration to inspiration: the first
\* expiration starts with the initialization
IdealInspiration(n) ==
  Add(legacy.expirationTime, Mul(I(n - 1), legacy.totalBreathTime))

\* The n-th inspiration started within one tick delta of its ideal time
NearIdeal(n) ==
  Le(NumAbs(Sub(legacy.inspirations[n], IdealInspiration(n))), LongestDelta)

\* The n-th and the next inspiration started one totalBreathTime apart, within
\* one tick delta
OneBreathApart(n) ==
  Le(NumAbs(Sub(Sub(legacy.inspirations[n + 1], legacy.inspirations[n]),
                legacy.totalBreathTime)),
     LongestDelta)

\* C27: for fixed settings and positive tick deltas each shorter than both phase
\* durations, the elapsed time at the n-th switch from expiration to inspiration
\* is within one tick delta of its ideal value for every n, and consecutive
\* inspirations start one totalBreathTime apart
C27_BreathsOnTime ==
  (variant = "legacy" /\ legacy.initialized) =>
    /\ \A n \in 1..Len(legacy.inspirations) : NearIdeal(n)
    /\ \A n \in 1..(Len(legacy.inspirations) - 1) : OneBreathApart(n)

\* C27 for the first inspiration
C27_FirstBreathOnTime ==
  (variant = "legacy" /\ Len(legacy.inspirations) >= 1) => NearIdeal(1)

\* C27: under tick deltas shorter than both phase durations the second
\* inspiration has started more than one tick delta late
C27_SecondBreathLate ==
  /\ variant = "legacy"
  /\ Lt(LongestDelta, legacy.inspirationTime)
  /\ Lt(LongestDelta, legacy.expirationTime)
  /\ Len(legacy.inspirations) = 2
  /\ Gt(Sub(legacy.inspirations[2], IdealInspiration(2)), LongestDelta)

\* While the simulation runs at most one interval is live
OneLiveInterval ==
  (variant = "legacy" /\ legacy.simulationRunning) =>
    Cardinality(legacy.intervals) <= 1

\* The interval that has just called step was not live at any stop
NoStepAfterStop ==
  lastOp.op = "intervalStep" => lastOp.arg \notin legacy.stopped

\* C28: for every interleaving of clicks on the start-stop button and interval
\* firings, at most one interval that calls SimulationCore.step is live, and an
\* interval started before a stop never calls step after that stop, also when
\* the simulation is restarted before the old interval's next firing
C28_OneDriver == OneLiveInterval /\ NoStepAfterStop

\* C28 in the states in which no interval that was live at a stop is live
\* while the simulation runs
C28_OneDriverAfterClearing ==
  (\A id \in legacy.intervals \cap legacy.stopped : ~legacy.simulationRunning) =>
    C28_OneDriver

\* C28: no interval calls step while the simulation is stopped
C28_NoStepWhileStopped ==
  [][lastOp'.op = "intervalStep" => legacy.simulationRunning]_vars

\* C28: after a stop and a restart before the old interval's next firing, two
\* intervals are live and the one started before the stop has called step
C28_OldIntervalSteps ==
  /\ variant = "legacy" /\ legacy.simulationRunning
  /\ Cardinality(legacy.intervals) = 2
  /\ lastOp.op = "intervalStep"
  /\ lastOp.arg \in legacy.stopped

\* C28: a stopped interval has cleared itself at its next firing and a later
\* start has left one interval live
C28_RestartedAfterClearing ==
  /\ variant = "legacy" /\ legacy.simulationRunning
  /\ legacy.stopped # {}
  /\ legacy.intervals \cap legacy.stopped = {}
  /\ Cardinality(legacy.intervals) = 1
  /\ lastOp.op = "intervalStep"

=========================================================================
